---- MODULE Spec2Model ----
(***************************************************************************)
(* Donation payment flow of the Cappella Marialis serverless backend:      *)
(*   api/p24/create.js   registration handler                              *)
(*   api/p24/status.js   Przelewy24 webhook handler                        *)
(*   the earlier webhook handler kept in the repository                    *)
(*   (src/unnamed/part_003, lines 208-267)                                 *)
(* acting on the Supabase tables p24_transactions and p24_events.          *)
(* Every await of a handler is one atomic step; invocations interleave.    *)
(***************************************************************************)
EXTENDS Integers, FiniteSets, Sequences, TLC

\* Number of donation sessions (one registration request each).
NumSessions == 1
\* Number of webhook deliveries.
NumDeliveries == 2
\* Number of requests to the news endpoint that are in progress at once.
NumRequests == 1

\* Largest collection of posts whose fingerprint is computed.
MaxPosts == 2

\* Longest run of letters in a message whose title is computed.
MaxRun == 62

Sessions == 1..NumSessions
Deliveries == 1..NumDeliveries
NewsRequests == 1..NumRequests

\* Payload without a session identifier: String('' ).trim() is falsy.
NoSession == 0

VARIABLES
    p24_transactions,   \* session_id -> row of table p24_transactions
    p24_events,         \* rows of table p24_events
    eventsUp,           \* whether the store accepts inserts into p24_events
    sends,              \* session_id -> number of sendThankYouEmail calls
    wh,                 \* delivery -> state of one webhook invocation
    cr,                 \* session -> state of one registration invocation
    calc,               \* one application of a pure function of the sources,
                        \* or the state of translateLibre, of the OAuth
                        \* callback, or of the recording modal
    facebook_cache,     \* rows facebook_news and facebook_news_en of the table
    nr,                 \* request -> state of one invocation of facebook-news.js
    deepl               \* whether the last call to the translation provider failed

vars == <<p24_transactions, p24_events, eventsUp, sends, wh, cr, calc,
          facebook_cache, nr, deepl>>

\* The variables of the payment flow, and the others.
payVars == <<p24_transactions, p24_events, eventsUp, sends, wh, cr>>
restVars == <<calc, facebook_cache, nr, deepl>>

----------------------------------------------------------------------------
\* Rows

\* No row with this session_id (maybeSingle() yields data = null).
NoRow ==
    [status |-> "absent", email |-> FALSE, paid_at |-> 0,
     thankyou_email_sent_at |-> 0, thankyou_email_error |-> FALSE,
     amount_grosze |-> 0, currency |-> "null", p24_token |-> "null",
     p24_order_id |-> "null", redirect_url |-> "null"]

\* Row written by the insert of create.js; email is "email || null".
InitiatedRow(amount, currency, hasEmail) ==
    [status |-> "initiated", email |-> hasEmail, paid_at |-> 0,
     thankyou_email_sent_at |-> 0, thankyou_email_error |-> FALSE,
     amount_grosze |-> amount, currency |-> currency, p24_token |-> "null",
     p24_order_id |-> "null", redirect_url |-> "null"]

\* updatedRows?.[0] || null when no row was returned.
NullUpdated == [row |-> FALSE, email |-> FALSE, sent_at |-> 0]

Event(type, sid, p) == [event_type |-> type, session_id |-> sid, by |-> p]

WhIdle ==
    [pc |-> "idle", handler |-> "none", method |-> "none", sid |-> NoSession,
     order |-> "none", seen |-> "none", verify |-> "none", mail |-> "none",
     executed |-> FALSE,
     changed |-> FALSE, updated |-> NullUpdated, resp |-> 0]

Exists(r) == r.status # "absent"

\* new Date().toISOString() as read by invocation p: a non-null instant, and
\* distinct invocations read distinct instants.
Stamp(p) == p

----------------------------------------------------------------------------
\* Pieces of the handlers

\* The check of line 61 without its orderId half.
MissingIds_SessionOnly(sid, order) == sid = NoSession

\* status.js line 61: if (!sessionId || !orderId) return 200.
MissingIds(sid, order) == sid = NoSession \/ order = "missing"

\* What the handler learns from the row it read: !tx, tx.status === 'paid'.
Seen(row) == IF ~Exists(row) THEN "null" ELSE IF row.status = "paid" THEN "paid" ELSE "open"

\* The handler without its idempotence guard.
AlreadyPaid_NoGuard(row) == FALSE

\* status.js line 74: if (tx.status === 'paid') return 200.
AlreadyPaid(row) == row.status = "paid"

\* The update without .neq('status', 'paid').
MarkPaidFilter_NoNeq(row) == Exists(row)

\* status.js lines 120-121: .eq('session_id', sessionId).neq('status', 'paid').
MarkPaidFilter(row) == Exists(row) /\ row.status # "paid"

\* An update that also writes the amount and currency of the notification.
PaidRow_WithAmount(row, p) ==
    [row EXCEPT !.status = "paid", !.paid_at = Stamp(p), !.p24_order_id = "order",
                !.amount_grosze = 1, !.currency = "PLN"]

\* status.js lines 114-119 (part_003 lines 259-264): the fields written by
\* the update to paid.
PaidRow(row, p) ==
    [row EXCEPT !.status = "paid", !.paid_at = Stamp(p), !.p24_order_id = "order"]

\* A verify call whose failure is not thrown.
AfterVerify_Ignored(ok) == "update"

\* p24PostJson throws on a non-2xx response (p24.js lines 241-249), so the
\* handler continues to the update only after a successful verify.
AfterVerify(ok) == IF ok THEN "update" ELSE "catch"

\* A select that returns the row of the session whether or not it was updated.
UpdatedRow_Unconditional(row) ==
    IF Exists(row)
    THEN [row |-> TRUE, email |-> row.email, sent_at |-> row.thankyou_email_sent_at]
    ELSE NullUpdated

\* status.js lines 122, 126: the rows the conditional update returns.
UpdatedRow(row) ==
    IF MarkPaidFilter(row)
    THEN [row |-> TRUE, email |-> row.email, sent_at |-> row.thankyou_email_sent_at]
    ELSE NullUpdated

\* status.js line 137: if (updated?.email && !updated.thankyou_email_sent_at).
ShouldSend(u) == u.row /\ u.email /\ u.sent_at = 0

\* A send whose failure is not caught by the inner try block.
AfterSend_Uncaught(ok) == IF ok THEN "mark" ELSE "catch"

\* status.js lines 138-162: sendThankYouEmail returns, or throws (part_006
\* lines 51-56) into the inner catch block.
AfterSend(ok) == IF ok THEN "mark" ELSE "emailErr"

\* status.js line 155: .is('thankyou_email_sent_at', null).
MarkSentFilter(row) == Exists(row) /\ row.thankyou_email_sent_at = 0

\* create.js line 184: .eq('session_id', sessionId), no condition on status.
RegisteredFilter(row) == Exists(row)

----------------------------------------------------------------------------
\* Registration input, create.js lines 16-35 and 59-87

\* A JSON value given as amountGrosze, or the text of an environment variable:
\* Number(x) is finite or not; a finite number has a whole part and possibly
\* a fraction.
NotANumber == [finite |-> FALSE, whole |-> 0, frac |-> FALSE]
Whole(n) == [finite |-> TRUE, whole |-> n, frac |-> FALSE]
Fraction(n) == [finite |-> TRUE, whole |-> n, frac |-> TRUE]

\* create.js line 26: process.env.DONATION_MIN_GROSZE || 100.
DefaultMinGrosze == 100
\* create.js line 27: process.env.DONATION_MAX_GROSZE || 1_000_000.
DefaultMaxGrosze == 1000000

\* An environment variable that is not set.
Unset == [set |-> FALSE, num |-> NotANumber]
SetTo(n) == [set |-> TRUE, num |-> n]

\* process.env.X || d
OrDefault(e, d) == IF e.set THEN e.num ELSE Whole(d)

Null == [null |-> TRUE, n |-> 0]
Int32(n) == [null |-> FALSE, n |-> n]

\* create.js lines 16-20: null unless Number(x) is finite, else Math.trunc.
toInt(x) == IF ~x.finite THEN Null ELSE Int32(x.whole)

\* The relational operators of JavaScript convert null to 0.
NumberOf(v) == IF v.null THEN 0 ELSE v.n

\* create.js lines 22-31.
validateAmount(amountGrosze, env) ==
    LET n == toInt(amountGrosze)
        min == toInt(OrDefault(env.min, DefaultMinGrosze))
        max == toInt(OrDefault(env.max, DefaultMaxGrosze)) IN
    IF n.null THEN [ok |-> FALSE, error |-> "invalid", value |-> 0]
    ELSE IF n.n < NumberOf(min) THEN [ok |-> FALSE, error |-> "min", value |-> 0]
    ELSE IF n.n > NumberOf(max) THEN [ok |-> FALSE, error |-> "max", value |-> 0]
    ELSE [ok |-> TRUE, error |-> "none", value |-> n.n]

\* A consent check that takes any value that is present.
mustBeTrue_Truthy(v) == v # "undefined"

\* create.js lines 33-35; the values are written as JSON writes them.
mustBeTrue(v) == v \in {"true", "'true'", "1", "'1'", "'on'"}

\* create.js line 77: (body.email || '').trim().
TrimmedEmail(e) == IF e = "blank" THEN "" ELSE e

\* create.js line 78: String(env || 'true').toLowerCase() !== 'false'.
RequireEmail(env) == env.requireEmail # "false"

\* create.js line 86: String(body.currency || 'PLN').
CurrencyOf(c) == IF c = "undefined" THEN "PLN" ELSE c

\* create.js lines 61-84: the first failing check decides the error.
Validate(req, env) ==
    LET amountCheck == validateAmount(req.amount, env) IN
    IF ~amountCheck.ok THEN amountCheck.error
    ELSE IF ~mustBeTrue(req.privacy) \/ ~mustBeTrue(req.terms) THEN "consents"
    ELSE IF RequireEmail(env) /\ TrimmedEmail(req.email) = "" THEN "email"
    ELSE "none"

\* Request bodies: one valid request, varied in one field at a time.
BaseRequest ==
    [amount |-> Whole(DefaultMinGrosze), privacy |-> "true", terms |-> "true",
     email |-> "donor", currency |-> "undefined"]

RawAmounts ==
    {NotANumber, Whole(0), Whole(50), Fraction(DefaultMinGrosze),
     Whole(DefaultMaxGrosze), Fraction(DefaultMaxGrosze),
     Whole(DefaultMaxGrosze + 1)}

ConsentInputs == {"true", "'on'", "false", "undefined"}

Requests ==
    {[BaseRequest EXCEPT !.amount = a] : a \in RawAmounts}
    \cup {[BaseRequest EXCEPT !.privacy = v] : v \in ConsentInputs}
    \cup {[BaseRequest EXCEPT !.terms = v] : v \in ConsentInputs}
    \cup {[BaseRequest EXCEPT !.email = e] : e \in {"", "blank"}}
    \cup {[BaseRequest EXCEPT !.currency = "EUR"]}

\* The environment of one invocation.
DefaultEnv == [min |-> Unset, max |-> Unset, requireEmail |-> "unset"]

Envs ==
    [min : {Unset, SetTo(Whole(0))}, max : {Unset},
     requireEmail : {"unset", "false"}]

\* No body held (before the body is read and after validation).
NoRequest ==
    [amount |-> NotANumber, privacy |-> "undefined", terms |-> "undefined",
     email |-> "", currency |-> "undefined"]

\* One registration invocation: its position, its response, the body and the
\* environment it read, the error it answered, the register response it holds.
NoRegisterResp == [token |-> "null", orderId |-> "null"]

\* No pure function is being applied.
NoCalc == [op |-> "none"]

CrIdle ==
    [pc |-> "idle", resp |-> 0, req |-> NoRequest, env |-> DefaultEnv,
     error |-> "none", reg |-> NoRegisterResp]

\* An invocation that ended with this status code.
CrEnded(code, error) ==
    [CrIdle EXCEPT !.pc = "done", !.resp = code, !.error = error]

\* The insert whose error is not inspected.
AfterInsert_Unchecked(insErr) == "register"

\* create.js lines 129-131: an insert error is thrown before the register call.
AfterInsert(insErr) == IF insErr THEN "done" ELSE "register"

\* create.js line 172: the redirect URL computed from the token.
RedirectUrl(token) == <<"hostForRedirect", "trnRequest", token>>

\* The update that sets the status alone.
RegisteredRow_StatusOnly(row, reg) == [row EXCEPT !.status = "registered"]

\* create.js lines 177-183: the fields written by the update to registered.
RegisteredRow(row, reg) ==
    [row EXCEPT !.status = "registered", !.p24_order_id = reg.orderId,
                !.p24_token = reg.token, !.redirect_url = RedirectUrl(reg.token)]

----------------------------------------------------------------------------
\* The processor can verify only a session whose register call it has answered
\* (create.js lines 157-163).
ProcessorKnows(sid) == cr[sid].pc \in {"update", "done"}

\* An upsert that keeps one row per session in p24_events.
InsertEvent_Upsert(e) ==
    /\ p24_events' = IF eventsUp
                     THEN {x \in p24_events : x.session_id # e.session_id} \cup {e}
                     ELSE p24_events
    /\ UNCHANGED eventsUp

\* await supabase.from('p24_events').insert(...): the returned error is never
\* inspected, so a refused insert goes unnoticed.
InsertEvent(e) ==
    /\ p24_events' = IF eventsUp THEN p24_events \cup {e} ELSE p24_events
    /\ UNCHANGED eventsUp

\* An audit insert that fails throws into the catch block.
AfterAudit_Blocking(sid, order) ==
    IF ~eventsUp THEN "catch"
    ELSE IF MissingIds(sid, order) THEN "done" ELSE "read"

\* status.js lines 53-61: the audit insert is awaited and its result dropped;
\* the next statement is the check of the identifiers.
AfterAudit(sid, order) ==
    IF MissingIds(sid, order) THEN "done" ELSE "read"

\* The invocation responds; what sendThankYouEmail returned was never read
\* (status.js line 139), so a skipped send ends like a sent one.
Finish(p, code) ==
    wh' = [wh EXCEPT ![p].pc = "done", ![p].resp = code, ![p].updated = NullUpdated,
                     ![p].mail = IF @ = "skipped" THEN "ok" ELSE @]

----------------------------------------------------------------------------
\* News endpoint, api/facebook-news.js: texts, posts, hashes and cache rows.
\* A text is a sequence of tokens: a sentence, or a whitespace character.

\* The characters \s matches, of which the texts of the model hold three.
Whitespace == {" ", "\n", "\t"}

\* A row of facebook_cache that does not exist (maybeSingle() yields null).
NoCache == [exists |-> FALSE, fresh |-> FALSE, source_hash |-> <<>>, posts |-> <<>>]

\* A stored row: its data (source_hash, posts), and whether cached_at is
\* younger than cache_refresh_hours.
CacheRow(fresh, hash, posts) ==
    [exists |-> TRUE, fresh |-> fresh, source_hash |-> hash, posts |-> posts]

RECURSIVE TrimStart(_)
TrimStart(text) ==
    IF text # <<>> /\ Head(text) \in Whitespace THEN TrimStart(Tail(text)) ELSE text

RECURSIVE TrimEnd(_)
TrimEnd(text) ==
    IF text # <<>> /\ text[Len(text)] \in Whitespace
    THEN TrimEnd(SubSeq(text, 1, Len(text) - 1))
    ELSE text

\* String.prototype.trim
Trim(text) == TrimEnd(TrimStart(text))

\* replace(/\s+/g, ' '): every run of whitespace becomes one space.
RECURSIVE CollapseRuns(_)
CollapseRuns(text) ==
    IF text = <<>> THEN <<>>
    ELSE IF Head(text) \in Whitespace
         THEN <<" ">> \o CollapseRuns(TrimStart(text))
         ELSE <<Head(text)>> \o CollapseRuns(Tail(text))

\* facebook-news.js lines 37-41: replace(/\s+/g, ' ').trim()
normalizeText(text) == Trim(CollapseRuns(text))

\* A hash that covers the date, link and image too.
postContentHash_WithMeta(post) ==
    [title |-> normalizeText(post.title), body |-> normalizeText(post.body),
     meta |-> post.meta]

\* Lines 43-49: a hash of the normalized title and body, taken as injective.
postContentHash(post) ==
    [title |-> normalizeText(post.title), body |-> normalizeText(post.body)]

\* A fingerprint of the content hashes whatever their order and number.
stablePostsFingerprint_Unordered(posts) ==
    {postContentHash(posts[i]) : i \in 1..Len(posts)}

\* Lines 53-56: a hash of the list of content hashes, taken as injective.
stablePostsFingerprint(posts) ==
    [i \in 1..Len(posts) |-> postContentHash(posts[i])]

\* The characters of /[.!?]/.
SentenceEnd == {".", "!", "?"}

\* String.prototype.search and indexOf, counted from 1: the first place of a
\* character of the set, 0 when there is none.
FirstIn(text, chars) ==
    LET places == {i \in 1..Len(text) : text[i] \in chars} IN
    IF places = {} THEN 0
    ELSE CHOOSE i \in places : \A j \in places : i <= j

\* Line 373.
maxTitle == 60

\* The one character appended by line 375.
Ellipsis == "ellipsis"

\* Lines 357-371: the trimmed message up to its first sentence end, or its
\* first line when it has no sentence end.
FirstSentence(message) ==
    LET title == Trim(message)
        stopIndex == FirstIn(title, SentenceEnd)
        newlineIndex == FirstIn(title, {"\n"}) IN
    IF stopIndex # 0 THEN Trim(SubSeq(title, 1, stopIndex))
    ELSE IF newlineIndex # 0 THEN Trim(SubSeq(title, 1, newlineIndex - 1))
    ELSE title

\* A title that is never shortened.
TitleOf_NoLimit(message) == FirstSentence(message)

\* Lines 357-376: the title of a post, shortened to maxTitle characters.
TitleOf(message) ==
    LET title == FirstSentence(message) IN
    IF Len(title) > maxTitle
    THEN SubSeq(title, 1, maxTitle - 1) \o <<Ellipsis>>
    ELSE title

\* Lines 390-396: the post built from one item of the feed.
PostOf(item) ==
    [title |-> TitleOf(item.message), body |-> item.message, meta |-> item.meta]

\* Lines 352-397: items without message are skipped.
BuildPosts(data) ==
    LET kept == SelectSeq(data, LAMBDA item : item.message # <<>>) IN
    [i \in 1..Len(kept) |-> PostOf(kept[i])]

Item(message, meta) == [message |-> message, meta |-> meta]

\* Answers of the Graph API with a non-empty data array; meta stands for
\* created_time, permalink_url and full_picture.
Feeds ==
    {<<Item(<<"a1", ".", " ", "a2">>, 1)>>,
     <<Item(<<"a1", ".", " ", "a2">>, 2)>>,
     <<Item(<<"b1">>, 1), Item(<<"a1", ".", " ", "a2">>, 1)>>,
     <<Item(<<" ">>, 1)>>,
     <<Item(<<>>, 1)>>}

\* The English text the translation provider returns for a token.
EnToken(token) ==
    CASE token = "a1" -> "A1"
      [] token = "a2" -> "A2"
      [] token = "b1" -> "B1"
      [] OTHER -> token

Translated(text) == [i \in 1..Len(text) |-> EnToken(text[i])]

\* title: null, body: null of a placeholder (lines 195-200).
NullText == <<"null">>

\* Lines 164-170: the last stored post with this content hash, if any.
ExistingFor(hash, existingPosts) ==
    LET found == SelectSeq(existingPosts, LAMBDA e : e.content_hash = hash) IN
    IF found = <<>> THEN <<>> ELSE <<found[Len(found)]>>

\* A reconciliation that translates every post again.
NextEnPost_NoReuse(post, existingPosts) ==
    [title |-> IF post.title = <<>> THEN <<>> ELSE NullText,
     body |-> IF post.body = <<>> THEN <<>> ELSE NullText,
     meta |-> post.meta, content_hash |-> postContentHash(post)]

\* Lines 178-217: reuse the stored translation of a post with the same content
\* hash, else a placeholder whose empty fields are set to the empty string.
NextEnPost(post, existingPosts) ==
    LET contentHash == postContentHash(post)
        existing == ExistingFor(contentHash, existingPosts) IN
    IF existing # <<>> /\ (existing[1].title # NullText \/ existing[1].body # NullText)
    THEN [existing[1] EXCEPT !.meta = post.meta, !.content_hash = contentHash]
    ELSE [title |-> IF post.title = <<>> THEN <<>> ELSE NullText,
          body |-> IF post.body = <<>> THEN <<>> ELSE NullText,
          meta |-> post.meta, content_hash |-> contentHash]

NextEnPosts(posts, existingPosts) ==
    [i \in 1..Len(posts) |-> NextEnPost(posts[i], existingPosts)]

\* Lines 206-217: the texts of the batch, the titles and bodies still to
\* translate, post by post.
RECURSIVE TextsFrom(_, _, _)
TextsFrom(i, nextEnPosts, posts) ==
    IF i > Len(nextEnPosts) THEN <<>>
    ELSE (IF nextEnPosts[i].title = NullText THEN <<posts[i].title>> ELSE <<>>)
         \o (IF nextEnPosts[i].body = NullText THEN <<posts[i].body>> ELSE <<>>)
         \o TextsFrom(i + 1, nextEnPosts, posts)

Texts(nextEnPosts, posts) == TextsFrom(1, nextEnPosts, posts)

\* A handler that calls the provider with an empty batch too.
NeedsTranslation_Always(texts) == TRUE

\* Line 219: texts.length.
NeedsTranslation(texts) == texts # <<>>

\* A loop that fills the titles and leaves the body placeholders.
FillTranslated_TitlesOnly(nextEnPosts, posts) ==
    [i \in 1..Len(nextEnPosts) |->
        [nextEnPosts[i] EXCEPT
            !.title = IF @ = NullText THEN Translated(posts[i].title) ELSE @]]

\* Lines 220-225: the translated texts go to their slots.
FillTranslated(nextEnPosts, posts) ==
    [i \in 1..Len(nextEnPosts) |->
        [nextEnPosts[i] EXCEPT
            !.title = IF @ = NullText THEN Translated(posts[i].title) ELSE @,
            !.body = IF @ = NullText THEN Translated(posts[i].body) ELSE @]]

\* A reconciliation that never finds the stored collection up to date.
HashHit_Never(enRow, localSourceHash) == FALSE

\* Lines 157-158: existingHash && existingHash === localSourceHash.
HashHit(enRow, localSourceHash) ==
    enRow.exists /\ enRow.source_hash = localSourceHash

\* Lines 407-408.
plChanged(fallbackCache, sourceHash) ==
    ~fallbackCache.exists \/ fallbackCache.source_hash # sourceHash


\* Lines 431-463: after the write of the PL cache.
AfterPlWrite(lang, prefetchEn, changed) ==
    IF lang = "en" THEN "enRead"
    ELSE IF prefetchEn /\ changed THEN "reconcile" ELSE "done"

\* One invocation: its position, query parameters (prefetch_en counts for a
\* PL request only), whether its read of the PL cache failed, the expired PL
\* collection it holds, the posts it built,
\* where it goes after the write of the PL cache, the EN posts it is
\* building, the batch of texts to translate, whether the read of the EN
\* cache failed, whether the stored EN
\* hash matched, its calls to the translation provider, its writes of the EN
\* cache, and its response.
NrIdle ==
    [pc |-> "idle", lang |-> "pl", prefetch |-> FALSE, cacheError |-> FALSE,
     fallback |-> NoCache,
     posts |-> <<>>, after |-> "none", next |-> <<>>, texts |-> <<>>,
     enReadErr |-> FALSE, hit |-> FALSE, calls |-> 0, enWrites |-> 0, resp |-> 0, body |-> "none"]

\* The invocation goes on to pc holding these posts; the rest is dropped.
NrAt(q, pc, posts) ==
    [NrIdle EXCEPT !.pc = pc, !.lang = q.lang, !.posts = posts]

\* The invocation has responded; what it held is dropped.
NrEnded(q, code, body) ==
    [NrIdle EXCEPT !.pc = "done", !.lang = q.lang,
                   !.hit = q.hit, !.calls = q.calls, !.enWrites = q.enWrites,
                   !.resp = code, !.body = body]

\* An answer of the Graph API that cannot be used.
FetchFailed_NoFallback(q) == NrEnded(q, 500, "error")

\* Lines 315-349: the fetch fails or the answer has no data: the expired
\* collection the request holds, or an error.
FetchFailed(q) ==
    IF q.fallback.exists THEN NrEnded(q, 200, "fallback")
    ELSE NrEnded(q, 500, "error")

\* A failure of the reconciliation that reaches the outer catch.
PrefetchFailed_Uncaught(q) == NrEnded(q, 500, "error")

\* Lines 452-463: what ensureEnglishCache throws is caught and logged, the
\* PL payload is the response.
PrefetchFailed(q) == NrEnded(q, 200, "payload")

\* A handler that takes every stored collection for expired.
CacheHit_Never(cacheRow) == FALSE

\* Lines 262-266: the row has data and cached_at, and is younger than
\* cache_refresh_hours.
CacheHit(cacheRow) == cacheRow.exists /\ cacheRow.fresh

\* An upsert that renews cached_at only.
PlRow_KeepData(cacheRow, posts) == [cacheRow EXCEPT !.exists = TRUE, !.fresh = TRUE]

\* Lines 411-424: the row written for the posts of this fetch.
PlRow(cacheRow, posts) == CacheRow(TRUE, stablePostsFingerprint(posts), posts)

\* No cache row, no request.
NewsIdle ==
    /\ facebook_cache = [pl |-> NoCache, en |-> NoCache]
    /\ nr = [r \in NewsRequests |-> NrIdle]
    /\ deepl = "ok"

----------------------------------------------------------------------------
Init ==
    /\ p24_transactions = [s \in Sessions |-> NoRow]
    /\ p24_events = {}
    /\ eventsUp \in BOOLEAN
    /\ sends = [s \in Sessions |-> 0]
    /\ wh = [p \in Deliveries |-> WhIdle]
    /\ cr = [c \in Sessions |-> CrIdle]
    /\ calc = NoCalc
    /\ NewsIdle

----------------------------------------------------------------------------
\* Webhook handler, api/p24/status.js

\* Lines 34-61: method check, clients and configuration, body, audit insert,
\* acknowledgement of a payload without identifiers.
Receive(p) ==
    /\ wh[p].pc = "idle"
    /\ UNCHANGED <<p24_transactions, sends, cr>>
    /\ UNCHANGED restVars
    /\ \/ /\ wh' = [wh EXCEPT ![p] = [WhIdle EXCEPT !.handler = "status",
                        !.method = "GET", !.pc = "done", !.resp = 405]]
          /\ UNCHANGED <<p24_events, eventsUp>>
       \/ \* getSupabaseAdmin() or getP24Config() throws outside the try block
          /\ wh' = [wh EXCEPT ![p] = [WhIdle EXCEPT !.handler = "status",
                        !.method = "POST", !.pc = "done", !.resp = 500]]
          /\ UNCHANGED <<p24_events, eventsUp>>
       \/ \* readRawBody rejects inside the try block
          /\ wh' = [wh EXCEPT ![p] = [WhIdle EXCEPT !.handler = "status",
                        !.method = "POST", !.pc = "catch"]]
          /\ UNCHANGED <<p24_events, eventsUp>>
       \/ \E sid \in {NoSession} \cup Sessions, order \in {"missing", "present"} :
            /\ InsertEvent(Event("webhook_status", sid, p))
            /\ wh' = [wh EXCEPT ![p] = [WhIdle EXCEPT !.handler = "status",
                        !.method = "POST", !.sid = sid, !.order = order,
                        !.pc = AfterAudit(sid, order),
                        !.resp = IF MissingIds(sid, order) THEN 200 ELSE 0]]

\* Lines 63-79: load the transaction, idempotence guard.
Read(p) ==
    /\ wh[p].pc = "read"
    /\ UNCHANGED <<p24_transactions, p24_events, eventsUp, sends, cr>>
    /\ UNCHANGED restVars
    /\ LET row == p24_transactions[wh[p].sid] IN
       \/ \* throws: txErr (line 70), or amount_grosze is 0 or no number (line 79)
          wh' = [wh EXCEPT ![p].seen = "error", ![p].pc = "catch"]
       \/ /\ ~Exists(row) \/ AlreadyPaid(row)
          /\ wh' = [wh EXCEPT ![p].seen = Seen(row), ![p].pc = "done", ![p].resp = 200]
       \/ /\ Exists(row) /\ ~AlreadyPaid(row)
          /\ row.amount_grosze # 0
          /\ wh' = [wh EXCEPT ![p].seen = Seen(row), ![p].pc = "verify"]

\* Lines 81-107: sign and call the processor's verify endpoint.
Verify(p) ==
    /\ wh[p].pc = "verify"
    /\ UNCHANGED <<p24_transactions, p24_events, eventsUp, sends, cr>>
    /\ UNCHANGED restVars
    /\ \E ok \in BOOLEAN :
        /\ ok => ProcessorKnows(wh[p].sid)
        /\ wh' = [wh EXCEPT ![p].verify = IF ok THEN "ok" ELSE "fail",
                            ![p].pc = AfterVerify(ok)]

\* Lines 109-126: conditional update to paid.
Update(p) ==
    /\ wh[p].pc = "update"
    /\ UNCHANGED <<p24_events, eventsUp, sends, cr>>
    /\ UNCHANGED restVars
    /\ LET sid == wh[p].sid
           row == p24_transactions[sid] IN
       \/ \* updErr
          /\ wh' = [wh EXCEPT ![p].pc = "catch"]
          /\ UNCHANGED p24_transactions
       \/ /\ MarkPaidFilter(row)
          /\ p24_transactions' = [p24_transactions EXCEPT
                ![sid] = PaidRow(row, p)]
          /\ wh' = [wh EXCEPT ![p].executed = TRUE, ![p].changed = TRUE,
                              ![p].updated = UpdatedRow(row), ![p].pc = "verifyEvent"]
       \/ /\ ~MarkPaidFilter(row)
          /\ UNCHANGED p24_transactions
          /\ wh' = [wh EXCEPT ![p].executed = TRUE,
                              ![p].updated = UpdatedRow(row), ![p].pc = "verifyEvent"]

\* Lines 128-137: verify event, decision to send the thank-you email.
VerifyEvent(p) ==
    /\ wh[p].pc = "verifyEvent"
    /\ UNCHANGED <<p24_transactions, sends, cr>>
    /\ UNCHANGED restVars
    /\ InsertEvent(Event("verify", wh[p].sid, p))
    /\ \/ /\ ShouldSend(wh[p].updated)
          /\ wh' = [wh EXCEPT ![p].pc = "send"]
       \/ /\ ~ShouldSend(wh[p].updated)
          /\ Finish(p, 200)

\* Lines 138-146: sendThankYouEmail returns after the provider accepted the
\* email, returns { skipped: true } without sending (part_006 lines 8-10), or
\* throws.
Send(p) ==
    /\ wh[p].pc = "send"
    /\ UNCHANGED <<p24_transactions, p24_events, eventsUp, cr>>
    /\ UNCHANGED restVars
    /\ sends' = [sends EXCEPT ![wh[p].sid] = @ + 1]
    /\ \E out \in {"ok", "skipped", "failed"} :
        wh' = [wh EXCEPT ![p].mail = out,
                         ![p].pc = AfterSend(out # "failed")]

\* Lines 148-155, 165: mark the email as sent, only where it is still null.
Mark(p) ==
    /\ wh[p].pc = "mark"
    /\ UNCHANGED <<p24_events, eventsUp, sends, cr>>
    /\ UNCHANGED restVars
    /\ Finish(p, 200)
    /\ LET sid == wh[p].sid
           row == p24_transactions[sid] IN
       \/ /\ MarkSentFilter(row)
          /\ p24_transactions' = [p24_transactions EXCEPT
                ![sid] = [row EXCEPT !.thankyou_email_sent_at = Stamp(p),
                                     !.thankyou_email_error = FALSE]]
       \/ /\ ~MarkSentFilter(row)
          /\ UNCHANGED p24_transactions

\* Lines 156-165: record the email failure.
EmailErr(p) ==
    /\ wh[p].pc = "emailErr"
    /\ UNCHANGED <<p24_events, eventsUp, sends, cr>>
    /\ UNCHANGED restVars
    /\ Finish(p, 200)
    /\ LET sid == wh[p].sid
           row == p24_transactions[sid] IN
       p24_transactions' = [p24_transactions EXCEPT
            ![sid] = IF Exists(row) THEN [row EXCEPT !.thankyou_email_error = TRUE]
                     ELSE row]

\* Lines 166-181: best-effort error event, acknowledge.
Catch(p) ==
    /\ wh[p].pc = "catch"
    /\ UNCHANGED <<p24_transactions, sends, cr>>
    /\ UNCHANGED restVars
    /\ InsertEvent(Event("error", NoSession, p))
    /\ Finish(p, 200)

----------------------------------------------------------------------------
\* Earlier webhook handler, src/unnamed/part_003 lines 222-267

\* Lines 222-234: no try block, no audit insert.
LegacyReceive(p) ==
    /\ wh[p].pc = "idle"
    /\ UNCHANGED <<p24_transactions, p24_events, eventsUp, sends, cr>>
    /\ UNCHANGED restVars
    /\ \/ wh' = [wh EXCEPT ![p] = [WhIdle EXCEPT !.handler = "legacy",
                    !.method = "GET", !.pc = "done", !.resp = 405]]
       \/ \* getP24Config, readRawBody or JSON.parse throws: unhandled rejection
          wh' = [wh EXCEPT ![p] = [WhIdle EXCEPT !.handler = "legacy",
                    !.method = "POST", !.pc = "done", !.resp = 500]]
       \/ \* !sessionId || !orderId: acknowledged, nothing stored
          wh' = [wh EXCEPT ![p] = [WhIdle EXCEPT !.handler = "legacy",
                    !.method = "POST", !.order = "missing", !.pc = "done", !.resp = 200]]
       \/ \E sid \in Sessions :
            wh' = [wh EXCEPT ![p] = [WhIdle EXCEPT !.handler = "legacy",
                    !.method = "POST", !.sid = sid, !.order = "present",
                    !.pc = "legacyRead"]]

\* Lines 236-242: only data is destructured, a read error looks like no row.
LegacyRead(p) ==
    /\ wh[p].pc = "legacyRead"
    /\ UNCHANGED <<p24_transactions, p24_events, eventsUp, sends, cr>>
    /\ UNCHANGED restVars
    /\ LET row == p24_transactions[wh[p].sid] IN
       \/ \* read error: tx is undefined
          Finish(p, 200)
       \/ /\ ~Exists(row) \/ AlreadyPaid(row)
          /\ Finish(p, 200)
       \/ /\ Exists(row) /\ ~AlreadyPaid(row)
          /\ wh' = [wh EXCEPT ![p].pc = "legacyVerifyA"]

\* Lines 252-255: verify with bodyA.
LegacyVerifyA(p) ==
    /\ wh[p].pc = "legacyVerifyA"
    /\ UNCHANGED <<p24_transactions, p24_events, eventsUp, sends, cr>>
    /\ UNCHANGED restVars
    /\ \/ /\ ProcessorKnows(wh[p].sid)
          /\ wh' = [wh EXCEPT ![p].verify = "ok", ![p].pc = "legacyUpdate"]
       \/ wh' = [wh EXCEPT ![p].verify = "fail", ![p].pc = "legacyVerifyB"]

\* Lines 255-257: verify again with bodyB; a second failure is not caught.
LegacyVerifyB(p) ==
    /\ wh[p].pc = "legacyVerifyB"
    /\ UNCHANGED <<p24_transactions, p24_events, eventsUp, sends, cr>>
    /\ UNCHANGED restVars
    /\ \/ /\ ProcessorKnows(wh[p].sid)
          /\ wh' = [wh EXCEPT ![p].verify = "ok", ![p].pc = "legacyUpdate"]
       \/ wh' = [wh EXCEPT ![p].verify = "fail", ![p].pc = "done", ![p].resp = 500]

\* Lines 259-266: update by session_id alone; its error is not inspected.
LegacyUpdate(p) ==
    /\ wh[p].pc = "legacyUpdate"
    /\ UNCHANGED <<p24_events, eventsUp, sends, cr>>
    /\ UNCHANGED restVars
    /\ LET sid == wh[p].sid
           row == p24_transactions[sid] IN
       \/ /\ Finish(p, 200)
          /\ UNCHANGED p24_transactions
       \/ /\ Exists(row)
          /\ p24_transactions' = [p24_transactions EXCEPT
                ![sid] = PaidRow(row, p)]
          /\ wh' = [wh EXCEPT ![p].executed = TRUE, ![p].changed = TRUE,
                              ![p].pc = "done", ![p].resp = 200]

----------------------------------------------------------------------------
\* Registration handler, api/p24/create.js

\* Lines 42-59: method, content type, body.
CreateReceive(c) ==
    /\ cr[c].pc = "idle"
    /\ UNCHANGED <<p24_transactions, p24_events, eventsUp, sends, wh>>
    /\ UNCHANGED restVars
    /\ \/ \E code \in {405, 415} : cr' = [cr EXCEPT ![c] = CrEnded(code, "none")]
       \/ \* readJson rejects
          cr' = [cr EXCEPT ![c] = CrEnded(500, "none")]
       \/ \E req \in Requests, env \in Envs :
            cr' = [cr EXCEPT ![c] = [CrIdle EXCEPT !.pc = "validate",
                                        !.req = req, !.env = env]]

\* Lines 61-131: validation, clients and configuration, insert of the
\* initiated row.
CreateInsert(c) ==
    /\ cr[c].pc = "validate"
    /\ UNCHANGED <<p24_events, eventsUp, sends, wh>>
    /\ UNCHANGED restVars
    /\ LET req == cr[c].req
           error == Validate(req, cr[c].env) IN
       \/ /\ error # "none"
          /\ cr' = [cr EXCEPT ![c] = CrEnded(400, error)]
          /\ UNCHANGED p24_transactions
       \/ \* getSupabaseAdmin() or getP24Config() throws
          /\ error = "none"
          /\ cr' = [cr EXCEPT ![c] = CrEnded(500, "none")]
          /\ UNCHANGED p24_transactions
       \/ \* insErr
          /\ error = "none"
          /\ cr' = [cr EXCEPT ![c] = [CrEnded(500, "insert")
                                        EXCEPT !.pc = AfterInsert(TRUE)]]
          /\ UNCHANGED p24_transactions
       \/ /\ error = "none"
          /\ p24_transactions' = [p24_transactions EXCEPT ![c] =
                InitiatedRow(validateAmount(req.amount, cr[c].env).value,
                             CurrencyOf(req.currency),
                             TrimmedEmail(req.email) # "")]
          /\ cr' = [cr EXCEPT ![c] = [CrIdle EXCEPT !.pc = AfterInsert(FALSE)]]

\* Lines 133-170: register with the processor; a failure or a response
\* without token ends in the catch block.
CreateRegister(c) ==
    /\ cr[c].pc = "register"
    /\ UNCHANGED <<p24_transactions, p24_events, eventsUp, sends, wh>>
    /\ UNCHANGED restVars
    /\ \/ \E orderId \in {"null", "order"} :
            cr' = [cr EXCEPT ![c].pc = "update",
                             ![c].reg = [token |-> "token", orderId |-> orderId]]
       \/ \* p24PostJson throws, or the response carries no token
          cr' = [cr EXCEPT ![c] = CrEnded(500, "register")]

\* Lines 172-199: update to registered.
CreateUpdate(c) ==
    /\ cr[c].pc = "update"
    /\ UNCHANGED <<p24_events, eventsUp, sends, wh>>
    /\ UNCHANGED restVars
    /\ LET row == p24_transactions[c] IN
       \/ \* updErr
          /\ cr' = [cr EXCEPT ![c] = CrEnded(500, "update")]
          /\ UNCHANGED p24_transactions
       \/ /\ p24_transactions' = [p24_transactions EXCEPT
                ![c] = IF RegisteredFilter(row) THEN RegisteredRow(row, cr[c].reg)
                       ELSE row]
          /\ cr' = [cr EXCEPT ![c] = CrEnded(200, "none")]

----------------------------------------------------------------------------
\* Deliveries to status.js against transactions whose registration has ended.
NextStatus ==
    \E p \in Deliveries :
        \/ Receive(p)
        \/ Read(p)
        \/ Verify(p)
        \/ Update(p)
        \/ VerifyEvent(p)
        \/ Send(p)
        \/ Mark(p)
        \/ EmailErr(p)
        \/ Catch(p)

NextLegacy ==
    \E p \in Deliveries :
        \/ LegacyReceive(p)
        \/ LegacyRead(p)
        \/ LegacyVerifyA(p)
        \/ LegacyVerifyB(p)
        \/ LegacyUpdate(p)

NextCreate ==
    \E c \in Sessions :
        \/ CreateReceive(c)
        \/ CreateInsert(c)
        \/ CreateRegister(c)
        \/ CreateUpdate(c)

Next == NextStatus \/ NextLegacy \/ NextCreate

\* The whole payment flow: registrations and deliveries to both handlers.
Spec == Init /\ [][Next]_vars

\* A transaction as registration leaves it: never created, initiated (the
\* register call or the update failed) without an email, or registered with
\* one.
InitStatus ==
    /\ p24_transactions \in [Sessions ->
            {NoRow} \cup {InitiatedRow(DefaultMinGrosze, "PLN", FALSE)}
                    \cup {RegisteredRow(InitiatedRow(DefaultMinGrosze, "PLN", TRUE),
                                        [token |-> "token", orderId |-> "null"])}]
    /\ p24_events = {}
    /\ eventsUp \in BOOLEAN
    /\ sends = [s \in Sessions |-> 0]
    /\ wh = [p \in Deliveries |-> WhIdle]
    /\ cr = [c \in Sessions |-> CrEnded(0, "none")]
    /\ calc = NoCalc
    /\ NewsIdle

SpecStatus == InitStatus /\ [][NextStatus]_vars

\* Deliveries to either webhook handler, registration ended, the store
\* accepting the inserts into p24_events.
InitWebhook == InitStatus /\ eventsUp

NextWebhook == NextStatus \/ NextLegacy

SpecWebhook == InitWebhook /\ [][NextWebhook]_vars

\* Registrations and one webhook delivery, to either handler: the other
\* deliveries have ended.
InitFlow ==
    /\ p24_transactions = [s \in Sessions |-> NoRow]
    /\ p24_events = {}
    /\ eventsUp = TRUE
    /\ sends = [s \in Sessions |-> 0]
    /\ wh = [p \in Deliveries |-> IF p = 1 THEN WhIdle
                                  ELSE [WhIdle EXCEPT !.pc = "done"]]
    /\ cr = [c \in Sessions |-> CrIdle]
    /\ calc = NoCalc
    /\ NewsIdle

SpecFlow == InitFlow /\ [][Next]_vars

\* Registration requests alone, no webhook delivery.
InitCreate == Init /\ eventsUp

SpecCreate == InitCreate /\ [][NextCreate]_vars

----------------------------------------------------------------------------
\* Public reference, create.js lines 11-14, 37-40 and 89-90

\* The text of crypto.randomUUID(): 32 hexadecimal digits in groups of
\* 8-4-4-4-12, version digit 4 and variant digit 8; the first two groups, the
\* rest of the third and the last two are filled with one digit each.
UuidText(g1, g2, g3) ==
    [i \in 1..36 |->
        IF i \in {9, 14, 19, 24} THEN "-"
        ELSE IF i = 15 THEN "4"
        ELSE IF i = 20 THEN "8"
        ELSE IF i <= 8 THEN g1
        ELSE IF i <= 13 THEN g2
        ELSE g3]

Uuids == {UuidText(g1, g2, g3) : g1, g2, g3 \in {"0", "a", "f"}}

\* String.prototype.toUpperCase on one character.
UpperChar(ch) ==
    CASE ch = "a" -> "A"
      [] ch = "f" -> "F"
      [] OTHER -> ch

\* sessionId.replace(/-/g, '')
RemoveDashes(text) == SelectSeq(text, LAMBDA ch : ch # "-")

\* s.slice(0, n)
SliceFromStart(text, n) == SubSeq(text, 1, IF Len(text) < n THEN Len(text) ELSE n)

\* create.js lines 37-40.
makePublicRef(sessionId) ==
    LET digits == SliceFromStart(RemoveDashes(sessionId), 12) IN
    <<"D", "O", "N", "-">> \o [i \in 1..Len(digits) |-> UpperChar(digits[i])]

\* Two session identifiers whose references are to be computed.
InitPublicRef ==
    /\ p24_transactions = [s \in Sessions |-> NoRow]
    /\ p24_events = {}
    /\ eventsUp = TRUE
    /\ sends = [s \in Sessions |-> 0]
    /\ wh = [p \in Deliveries |-> WhIdle]
    /\ cr = [c \in Sessions |-> CrIdle]
    /\ \E a \in Uuids, b \in Uuids :
        calc = [op |-> "makePublicRef", a |-> a, b |-> b, done |-> FALSE,
                refA |-> <<>>, refB |-> <<>>]
    /\ NewsIdle

\* create.js line 90 for each of the two identifiers.
PublicRefs ==
    /\ calc.op = "makePublicRef"
    /\ ~calc.done
    /\ calc' = [calc EXCEPT !.done = TRUE, !.refA = makePublicRef(calc.a),
                            !.refB = makePublicRef(calc.b)]
    /\ UNCHANGED <<payVars, facebook_cache, nr, deepl>>

SpecPublicRef == InitPublicRef /\ [][PublicRefs]_vars

----------------------------------------------------------------------------
\* Verify request of the webhook handler, api/p24/status.js lines 41-97

\* getP24Config(): the merchant's identifiers and CRC key.
P24Config == [merchantId |-> "merchant", posId |-> "pos", crc |-> "crc"]

\* Bodies the processor (or anyone else) may post: the two identifiers and
\* the amount and currency fields of the notification.
Payloads ==
    [sessionId : Sessions, orderId : {1, 2},
     amount : {DefaultMinGrosze, 2 * DefaultMinGrosze}, currency : {"PLN", "EUR"}]

\* Stored transactions the handler may read: amount and currency as create.js
\* inserted them, or a row without a currency.
StoredRows ==
    {InitiatedRow(a, c, FALSE) :
        a \in {DefaultMinGrosze, 2 * DefaultMinGrosze}, c \in {"PLN", "null"}}

\* _lib/p24.js lines 152-155: the hash of the JSON text of these five fields;
\* the text stands for its SHA-384 digest.
p24VerifySign(sessionId, orderId, amount, currency, crc) ==
    [sessionId |-> sessionId, orderId |-> orderId, amount |-> amount,
     currency |-> currency, crc |-> crc]

\* A verify request that trusts the amount and currency of the notification.
verifyBody_FromPayload(payload, tx) ==
    [merchantId |-> P24Config.merchantId, posId |-> P24Config.posId,
     sessionId |-> payload.sessionId, amount |-> payload.amount,
     currency |-> payload.currency, orderId |-> payload.orderId,
     sign |-> p24VerifySign(payload.sessionId, payload.orderId, payload.amount,
                            payload.currency, P24Config.crc)]

\* status.js lines 44-50, 76-97: the identifiers come from the body, amount
\* and currency from the row (an integer column; 'PLN' where it is null).
verifyBody(payload, tx) ==
    LET amount == tx.amount_grosze
        currency == IF tx.currency = "null" THEN "PLN" ELSE tx.currency
    IN  [merchantId |-> P24Config.merchantId, posId |-> P24Config.posId,
         sessionId |-> payload.sessionId, amount |-> amount,
         currency |-> currency, orderId |-> payload.orderId,
         sign |-> p24VerifySign(payload.sessionId, payload.orderId, amount,
                                currency, P24Config.crc)]

\* Two notifications and the stored transactions they are checked against.
InitVerify ==
    /\ p24_transactions = [s \in Sessions |-> NoRow]
    /\ p24_events = {}
    /\ eventsUp = TRUE
    /\ sends = [s \in Sessions |-> 0]
    /\ wh = [p \in Deliveries |-> WhIdle]
    /\ cr = [c \in Sessions |-> CrIdle]
    /\ \E a \in Payloads, b \in Payloads, rows \in [Sessions -> StoredRows] :
        calc = [op |-> "verifyBody", a |-> a, b |-> b, rows |-> rows,
                done |-> FALSE, reqA |-> <<>>, reqB |-> <<>>]
    /\ NewsIdle

\* Lines 64-97 for each of the two notifications.
VerifyBodies ==
    /\ calc.op = "verifyBody"
    /\ ~calc.done
    /\ calc' = [calc EXCEPT
                    !.done = TRUE,
                    !.reqA = verifyBody(calc.a, calc.rows[calc.a.sessionId]),
                    !.reqB = verifyBody(calc.b, calc.rows[calc.b.sessionId])]
    /\ UNCHANGED <<payVars, facebook_cache, nr, deepl>>

SpecVerify == InitVerify /\ [][VerifyBodies]_vars

----------------------------------------------------------------------------
\* Translation fallback, src/unnamed/part_008 lines 41-89

\* Lines 42-46: the mirrors in the order of the list.
endpoints == <<"argosopentech", "zillyhuhn", "terraprint">>

\* What a mirror does with a request: answers with a translation, answers
\* with no or a blank translatedText, answers with an HTTP error, fails at
\* the network, or does not answer within the 8000 ms of the timer.
MirrorBehaviours == {"text", "blank", "http", "network", "hang"}

\* The error the catch block of lines 80-81 keeps for a failed attempt.
ErrorOf(endpoint, b) ==
    [kind |-> CASE b = "blank" -> "empty"
                [] b = "http" -> "http"
                [] b = "network" -> "fetch"
                [] b = "hang" -> "abort",
     endpoint |-> endpoint]

\* A loop that returns whatever a mirror answered with status 200.
Accepted_AnyAnswer(b) == b \in {"text", "blank"}

\* Lines 66-79: resp.ok and a translatedText that is not blank.
Accepted(b) == b = "text"

\* A call of translateLibre, the behaviour of each mirror drawn beforehand.
InitLibre ==
    /\ p24_transactions = [s \in Sessions |-> NoRow]
    /\ p24_events = {}
    /\ eventsUp = TRUE
    /\ sends = [s \in Sessions |-> 0]
    /\ wh = [p \in Deliveries |-> WhIdle]
    /\ cr = [c \in Sessions |-> CrIdle]
    /\ \E mirrors \in [1..Len(endpoints) -> MirrorBehaviours] :
        calc = [op |-> "translateLibre", mirrors |-> mirrors, i |-> 1,
                pc |-> "loop", tried |-> <<>>,
                lastErr |-> [kind |-> "null", endpoint |-> "none"],
                out |-> [kind |-> "none", endpoint |-> "none"]]
    /\ NewsIdle

\* Lines 50-85: one pass of the loop: timer, fetch, return or keep the error,
\* clear the timer.
LibreAttempt ==
    /\ calc.op = "translateLibre"
    /\ calc.pc = "loop"
    /\ calc.i <= Len(endpoints)
    /\ LET endpoint == endpoints[calc.i]
           b == calc.mirrors[calc.i] IN
       calc' = IF Accepted(b)
               THEN [calc EXCEPT !.tried = Append(@, endpoint),
                                 !.pc = "returned",
                                 !.out = [kind |-> "text", endpoint |-> endpoint]]
               ELSE [calc EXCEPT !.tried = Append(@, endpoint),
                                 !.lastErr = ErrorOf(endpoint, b), !.i = @ + 1]
    /\ UNCHANGED <<payVars, facebook_cache, nr, deepl>>

\* Line 88: throw lastErr || new Error('All LibreTranslate mirrors failed').
LibreThrow ==
    /\ calc.op = "translateLibre"
    /\ calc.pc = "loop"
    /\ calc.i > Len(endpoints)
    /\ calc' = [calc EXCEPT !.pc = "thrown",
                            !.out = IF calc.lastErr.kind = "null"
                                    THEN [kind |-> "all failed", endpoint |-> "none"]
                                    ELSE calc.lastErr]
    /\ UNCHANGED <<payVars, facebook_cache, nr, deepl>>

SpecLibre == InitLibre /\ [][LibreAttempt \/ LibreThrow]_vars

----------------------------------------------------------------------------
\* OAuth login and callback, src/unnamed/part_001 and src/README.md lines
\* 112-293

\* Values of the state parameter and of the fb_oauth_state cookie: absent,
\* empty, or one of two random values.
StateValues == {"null", "", "s1", "s2"}

\* A check that only compares the parameter with the cookie.
StateOk_EqualOnly(state, cookie) == state = cookie

\* README.md line 182: !state || !cookies.fb_oauth_state || state !== cookie
\* is the rejection.
StateOk(state, cookie) ==
    /\ state \notin {"null", ""}
    /\ cookie \notin {"null", ""}
    /\ state = cookie

\* The configuration row page_access_token as first stored, no state issued,
\* no request being handled.
InitCallback ==
    /\ p24_transactions = [s \in Sessions |-> NoRow]
    /\ p24_events = {}
    /\ eventsUp = TRUE
    /\ sends = [s \in Sessions |-> 0]
    /\ wh = [p \in Deliveries |-> WhIdle]
    /\ cr = [c \in Sessions |-> CrIdle]
    /\ calc = [op |-> "fbCallback", page_access_token |-> "t0", issued |-> {},
               pc |-> "idle", method |-> "none", code |-> "null",
               state |-> "null", cookie |-> "null", token |-> "null", resp |-> 0]
    /\ NewsIdle

\* part_001 lines 27-92: the login step. With the administrator's secret it
\* sets the fb_oauth_state cookie to a fresh random state and redirects.
FbLogin ==
    /\ calc.op = "fbCallback"
    /\ \E state \in {"s1", "s2"} : calc' = [calc EXCEPT !.issued = @ \cup {state}]
    /\ UNCHANGED <<payVars, facebook_cache, nr, deepl>>

\* README.md lines 152-186: method, configuration, code, state and cookie.
\* A finished invocation makes room for the next request.
CbStart ==
    /\ calc.op = "fbCallback"
    /\ calc.pc \in {"idle", "done"}
    /\ UNCHANGED <<payVars, facebook_cache, nr, deepl>>
    /\ \E method \in {"GET", "POST"}, code \in {"null", "c"},
          state \in StateValues, cookie \in StateValues, configOk \in BOOLEAN :
        LET q == [calc EXCEPT !.method = method, !.code = code, !.state = state,
                              !.cookie = cookie, !.token = "null"] IN
        calc' = IF method # "GET" THEN [q EXCEPT !.pc = "done", !.resp = 405]
                ELSE IF ~configOk THEN [q EXCEPT !.pc = "done", !.resp = 500]
                ELSE IF code = "null" THEN [q EXCEPT !.pc = "done", !.resp = 400]
                ELSE IF ~StateOk(state, cookie)
                     THEN [q EXCEPT !.pc = "done", !.resp = 400]
                ELSE [q EXCEPT !.pc = "exchange", !.resp = 0]

\* README.md lines 188-266: the code is exchanged for a user token and that
\* for the page access token; a failure is answered with 500.
CbExchange ==
    /\ calc.op = "fbCallback"
    /\ calc.pc = "exchange"
    /\ UNCHANGED <<payVars, facebook_cache, nr, deepl>>
    /\ \/ calc' = [calc EXCEPT !.pc = "done", !.resp = 500]
       \/ \E pageAccessToken \in {"t1", "t2"} :
            calc' = [calc EXCEPT !.pc = "save", !.token = pageAccessToken]

\* README.md lines 268-293: upsert of page_access_token.
CbSave ==
    /\ calc.op = "fbCallback"
    /\ calc.pc = "save"
    /\ UNCHANGED <<payVars, facebook_cache, nr, deepl>>
    /\ \/ \* saveError
          calc' = [calc EXCEPT !.pc = "done", !.resp = 500]
       \/ calc' = [calc EXCEPT !.pc = "done", !.resp = 200,
                               !.page_access_token = calc.token]

SpecCallback == InitCallback /\ [][FbLogin \/ CbStart \/ CbExchange \/ CbSave]_vars

----------------------------------------------------------------------------
\* Recording modal, src/modal.js

\* Values of document.body.style.overflow the page may have set.
OverflowValues == {"", "auto", "scroll"}

\* Elements that can hold the focus: two links that open the modal, the
\* close button, the body.
Elements == {"link1", "link2", "closeBtn", "body"}

\* The page as loaded: the modal closed, the script's variables as declared
\* at lines 10-11. before is the overflow found by the call of openModal
\* that opened the closed modal, opens tells how many calls of openModal
\* there were since the modal was last closed, last is the last call.
InitModal ==
    /\ p24_transactions = [s \in Sessions |-> NoRow]
    /\ p24_events = {}
    /\ eventsUp = TRUE
    /\ sends = [s \in Sessions |-> 0]
    /\ wh = [p \in Deliveries |-> WhIdle]
    /\ cr = [c \in Sessions |-> CrIdle]
    /\ \E overflow \in OverflowValues :
        calc = [op |-> "modal", isOpen |-> FALSE, ariaHidden |-> "true",
                src |-> "about:blank", overflow |-> overflow,
                activeElement |-> "body",
                lastActiveEl |-> "null", prevBodyOverflow |-> "",
                before |-> overflow, opens |-> "none", last |-> "none"]
    /\ NewsIdle

\* The user moves the focus.
ModalFocus ==
    /\ calc.op = "modal"
    /\ \E el \in Elements : calc' = [calc EXCEPT !.activeElement = el]
    /\ UNCHANGED <<payVars, facebook_cache, nr, deepl>>

\* Lines 13-27, called by the click handler of lines 38-47 with a url that is
\* not empty.
openModal ==
    /\ calc.op = "modal"
    /\ \E url \in {"u1", "u2"} :
        calc' = [calc EXCEPT
                    !.lastActiveEl = calc.activeElement,
                    !.prevBodyOverflow = calc.overflow,
                    !.isOpen = TRUE,
                    !.ariaHidden = "false",
                    !.overflow = "hidden",
                    !.src = url,
                    !.activeElement = "closeBtn",
                    !.before = IF calc.isOpen THEN @ ELSE calc.overflow,
                    !.opens = IF calc.isOpen /\ @ # "none" THEN "more" ELSE "once",
                    !.last = "openModal"]
    /\ UNCHANGED <<payVars, facebook_cache, nr, deepl>>

\* Lines 29-36; prevBodyOverflow || "" is prevBodyOverflow, "" being the one
\* falsy string.
Closed(c) ==
    [c EXCEPT !.isOpen = FALSE,
              !.ariaHidden = "true",
              !.src = "about:blank",
              !.overflow = c.prevBodyOverflow,
              !.activeElement = IF c.lastActiveEl # "null" THEN c.lastActiveEl ELSE @,
              !.last = "closeModal"]

\* Lines 49-50: a click on the overlay or on the close button.
closeModal ==
    /\ calc.op = "modal"
    /\ calc' = Closed(calc)
    /\ UNCHANGED <<payVars, facebook_cache, nr, deepl>>

\* Lines 52-54: the Escape key closes the modal while it is open.
ModalEscape ==
    /\ calc.op = "modal"
    /\ calc.isOpen
    /\ calc' = Closed(calc)
    /\ UNCHANGED <<payVars, facebook_cache, nr, deepl>>

SpecModal == InitModal /\ [][ModalFocus \/ openModal \/ closeModal \/ ModalEscape]_vars

----------------------------------------------------------------------------
\* Title of a post, api/facebook-news.js lines 357-376.

RECURSIVE Run(_)
Run(n) == IF n = 0 THEN <<>> ELSE <<"a">> \o Run(n - 1)

\* Messages of the feed: a run of up to MaxRun letters, after a space or
\* not, ended by a sentence end, a newline or nothing, and followed by more
\* text or not.
Messages ==
    {lead \o Run(n) \o end \o rest :
        lead \in {<<>>, <<" ">>},
        n \in 0..MaxRun,
        end \in {<<>>, <<".">>, <<"!">>, <<"?">>, <<"\n">>},
        rest \in {<<>>, <<" ", "a", ".">>, <<"\n", "a">>}}

\* A message whose title is to be computed.
InitTitle ==
    /\ p24_transactions = [s \in Sessions |-> NoRow]
    /\ p24_events = {}
    /\ eventsUp = TRUE
    /\ sends = [s \in Sessions |-> 0]
    /\ wh = [p \in Deliveries |-> WhIdle]
    /\ cr = [c \in Sessions |-> CrIdle]
    /\ \E message \in Messages :
        calc = [op |-> "title", message |-> message, done |-> FALSE, title |-> <<>>]
    /\ NewsIdle

\* Lines 357-376 for the message.
Titles ==
    /\ calc.op = "title"
    /\ ~calc.done
    /\ calc' = [calc EXCEPT !.done = TRUE, !.title = TitleOf(calc.message)]
    /\ UNCHANGED <<payVars, facebook_cache, nr, deepl>>

SpecTitle == InitTitle /\ [][Titles]_vars

----------------------------------------------------------------------------
\* Content hash and fingerprint, api/facebook-news.js lines 37-56.

\* Posts as lines 390-396 build them: one, the same with another date, the
\* same with other whitespace, one with another body, one with another title.
HashPosts ==
    {[title |-> <<"a1">>, body |-> <<"a1", " ", "a2">>, meta |-> 1],
     [title |-> <<"a1">>, body |-> <<"a1", " ", "a2">>, meta |-> 2],
     [title |-> <<" ", "a1", "\n">>, body |-> <<"a1", "\n", "\t", "a2", " ">>, meta |-> 1],
     [title |-> <<"a1">>, body |-> <<"b1">>, meta |-> 1],
     [title |-> <<"b1">>, body |-> <<"a1", " ", "a2">>, meta |-> 1]}

\* The collections of at most MaxPosts of these posts.
Collections ==
    UNION {[1..n -> HashPosts] : n \in 0..MaxPosts}

\* Two collections whose hashes are to be computed.
InitFingerprint ==
    /\ p24_transactions = [s \in Sessions |-> NoRow]
    /\ p24_events = {}
    /\ eventsUp = TRUE
    /\ sends = [s \in Sessions |-> 0]
    /\ wh = [p \in Deliveries |-> WhIdle]
    /\ cr = [c \in Sessions |-> CrIdle]
    /\ \E a \in Collections, b \in Collections :
        calc = [op |-> "stablePostsFingerprint", a |-> a, b |-> b, done |-> FALSE,
                hashesA |-> <<>>, hashesB |-> <<>>, fpA |-> <<>>, fpB |-> <<>>]
    /\ NewsIdle

\* Lines 399-404 for each of the two collections.
Fingerprints ==
    /\ calc.op = "stablePostsFingerprint"
    /\ ~calc.done
    /\ calc' = [calc EXCEPT
                    !.done = TRUE,
                    !.hashesA = [i \in 1..Len(calc.a) |-> postContentHash(calc.a[i])],
                    !.hashesB = [i \in 1..Len(calc.b) |-> postContentHash(calc.b[i])],
                    !.fpA = stablePostsFingerprint(calc.a),
                    !.fpB = stablePostsFingerprint(calc.b)]
    /\ UNCHANGED <<payVars, facebook_cache, nr, deepl>>

SpecFingerprint == InitFingerprint /\ [][Fingerprints]_vars

----------------------------------------------------------------------------
\* News endpoint, api/facebook-news.js lines 101-503

\* Lines 102-301: method, configuration, query parameters, read of the PL
\* cache. A finished invocation makes room for the next request.
NewsStart(r) ==
    /\ nr[r].pc \in {"idle", "done"}
    /\ UNCHANGED <<payVars, calc, facebook_cache, deepl>>
    /\ \/ nr' = [nr EXCEPT ![r] = NrEnded(NrIdle, 405, "error")]
       \/ \E lang \in {"pl", "en"}, prefetchEn \in BOOLEAN :
            LET q == [NrIdle EXCEPT !.lang = lang,
                                    !.prefetch = prefetchEn /\ lang # "en"]
                cacheRow == facebook_cache.pl IN
            \/ \* loadConfig throws
               nr' = [nr EXCEPT ![r] = NrEnded(q, 500, "error")]
            \/ \* the cached collection is younger than cache_refresh_hours
               /\ CacheHit(cacheRow)
               /\ nr' = [nr EXCEPT ![r] =
                    IF lang = "en" THEN NrAt(q, "enRead", <<>>)
                    ELSE NrEnded(q, 200, "plCache")]
            \/ \* the cached collection has expired
               /\ cacheRow.exists /\ ~CacheHit(cacheRow)
               /\ nr' = [nr EXCEPT ![r] = [q EXCEPT !.pc = "fetch",
                                                    !.fallback = cacheRow]]
            \/ \* the read fails: cacheError is logged
               nr' = [nr EXCEPT ![r] = [q EXCEPT !.pc = "fetch",
                                                    !.cacheError = TRUE]]
            \/ \* there is no row
               /\ ~cacheRow.exists
               /\ nr' = [nr EXCEPT ![r] = [q EXCEPT !.pc = "fetch"]]

\* Lines 272-289, 433-449, 469-485: a request for lang=en answers with the
\* stored EN collection, or 503 when the read yields none.
NewsEnRead(r) ==
    /\ nr[r].pc = "enRead"
    /\ UNCHANGED <<payVars, calc, facebook_cache, deepl>>
    /\ \/ /\ facebook_cache.en.exists
          /\ nr' = [nr EXCEPT ![r] = NrEnded(nr[r], 200, "enCache")]
       \/ \* no row, or the read fails
          nr' = [nr EXCEPT ![r] = NrEnded(nr[r], 503, "notReady")]

\* Lines 303-415, 466-496: fetch from the Graph API, build the posts, compare
\* their fingerprint with the one of the expired collection.
NewsFetch(r) ==
    /\ nr[r].pc = "fetch"
    /\ UNCHANGED <<payVars, calc, facebook_cache, deepl>>
    /\ LET q == nr[r] IN
       \/ \* the fetch fails, or the answer has no data
          nr' = [nr EXCEPT ![r] = FetchFailed(q)]
       \/ \E data \in Feeds :
            LET posts == BuildPosts(data)
                sourceHash == stablePostsFingerprint(posts)
                after == AfterPlWrite(q.lang, q.prefetch, plChanged(q.fallback, sourceHash)) IN
            nr' = [nr EXCEPT ![r] =
                    IF posts # <<>>
                    THEN [NrAt(q, "plWrite", posts) EXCEPT !.after = after,
                                                           !.prefetch = q.prefetch]
                    ELSE IF ~q.fallback.exists THEN NrEnded(q, 200, "empty")
                    ELSE IF q.lang = "en" THEN NrAt(q, "enRead", <<>>)
                    ELSE NrEnded(q, 200, "noPosts")]

\* Lines 417-463: write of the PL cache (its error is only logged), then the
\* EN lookup, the reconciliation, or the response.
NewsPlWrite(r) ==
    /\ nr[r].pc = "plWrite"
    /\ UNCHANGED <<payVars, calc, deepl>>
    /\ LET q == nr[r] IN
       /\ \/ facebook_cache' = [facebook_cache EXCEPT
                                    !.pl = PlRow(facebook_cache.pl, q.posts)]
          \/ \* upsertError
             UNCHANGED facebook_cache
       /\ nr' = [nr EXCEPT ![r] =
                    IF q.after = "done" THEN NrEnded(q, 200, "payload")
                    ELSE IF q.after = "enRead" THEN NrAt(q, "enRead", <<>>)
                    ELSE NrAt(q, q.after, q.posts)]

\* Lines 135-217: ensureEnglishCache up to the batch of texts.
NewsReconcile(r) ==
    /\ nr[r].pc = "reconcile"
    /\ UNCHANGED <<payVars, calc, facebook_cache, deepl>>
    /\ LET q == nr[r]
           localSourceHash == stablePostsFingerprint(q.posts) IN
       \/ \* no deepl_api_key: thrown, caught at line 455
          nr' = [nr EXCEPT ![r] = PrefetchFailed(q)]
       \/ \E readOk \in BOOLEAN :
            LET enRow == IF readOk THEN facebook_cache.en ELSE NoCache
                nextEnPosts == NextEnPosts(q.posts, enRow.posts)
                texts == Texts(nextEnPosts, q.posts) IN
            nr' = [nr EXCEPT ![r] =
                    IF HashHit(enRow, localSourceHash)
                    THEN NrEnded([q EXCEPT !.hit = TRUE], 200, "payload")
                    ELSE [q EXCEPT !.next = nextEnPosts,
                                   !.texts = texts,
                                   !.enReadErr = ~readOk,
                                   !.pc = IF NeedsTranslation(texts)
                                          THEN "translate" ELSE "enWrite"]]

\* Lines 219-226: one call to the translation provider.
NewsTranslate(r) ==
    /\ nr[r].pc = "translate"
    /\ UNCHANGED <<payVars, calc, facebook_cache>>
    /\ LET q == [nr[r] EXCEPT !.calls = @ + 1] IN
       \/ \* translateManyWithDeepL throws, caught at line 455
          /\ deepl' = "failed"
          /\ nr' = [nr EXCEPT ![r] = PrefetchFailed(q)]
       \/ /\ deepl' = "ok"
          /\ nr' = [nr EXCEPT ![r] = [q EXCEPT !.pc = "enWrite",
                                      !.next = FillTranslated(q.next, q.posts)]]

\* Lines 228-247, 460-463: write of the EN cache.
NewsEnWrite(r) ==
    /\ nr[r].pc = "enWrite"
    /\ UNCHANGED <<payVars, calc, deepl>>
    /\ LET q == nr[r] IN
       \/ \* enWriteErr: thrown, caught at line 455
          /\ UNCHANGED facebook_cache
          /\ nr' = [nr EXCEPT ![r] = PrefetchFailed(q)]
       \/ /\ facebook_cache' = [facebook_cache EXCEPT
                !.en = CacheRow(FALSE, stablePostsFingerprint(q.posts), q.next)]
          /\ nr' = [nr EXCEPT ![r] =
                        NrEnded([q EXCEPT !.enWrites = @ + 1], 200, "payload")]

\* Time passes: the cached collection gets older than cache_refresh_hours
\* (lines 263-266).
NewsAge ==
    /\ facebook_cache.pl.exists
    /\ facebook_cache.pl.fresh
    /\ facebook_cache' = [facebook_cache EXCEPT !.pl.fresh = FALSE]
    /\ UNCHANGED <<payVars, calc, nr, deepl>>

NextNews ==
    \/ \E r \in NewsRequests :
        \/ NewsStart(r)
        \/ NewsEnRead(r)
        \/ NewsFetch(r)
        \/ NewsPlWrite(r)
        \/ NewsReconcile(r)
        \/ NewsTranslate(r)
        \/ NewsEnWrite(r)
    \/ NewsAge

\* Requests to the news endpoint, the caches empty at first.
InitNews == InitCreate

SpecNews == InitNews /\ [][NextNews]_vars

----------------------------------------------------------------------------
\* Properties

Rows == p24_transactions

AuditEvent(p) == Event("webhook_status", wh[p].sid, p)
ErrorEvent(p) == Event("error", NoSession, p)

\* Deliveries to status.js for session s whose conditional update was executed
\* by the store, and those whose update changed a row.
Executed(s) ==
    {p \in Deliveries : wh[p].handler = "status" /\ wh[p].sid = s /\ wh[p].executed}
Changed(s) == {p \in Executed(s) : wh[p].changed}
AllDone(S) == \A p \in S : wh[p].pc = "done"

\* C1 as stated: when two deliveries for the same session both execute the
\* conditional update, exactly one update changes a row, the transaction is
\* paid, and once both have ended exactly one notification was sent.
C1_ExactlyOneNotification ==
    \A s \in Sessions :
        Cardinality(Executed(s)) >= 2 =>
            /\ Cardinality(Changed(s)) = 1
            /\ Rows[s].status = "paid"
            /\ AllDone(Executed(s)) => sends[s] = 1

\* C1 amended: when concurrent deliveries for the same session execute the
\* conditional update, exactly one update changes a row and the transaction is
\* paid; once they have ended, exactly one notification was sent if the
\* transaction has an email and none if it has no email; never more than one.
C1_ExactlyOneMarkPaid ==
    \A s \in Sessions :
        /\ sends[s] <= 1
        /\ Cardinality(Executed(s)) >= 2 =>
            /\ Cardinality(Changed(s)) = 1
            /\ Rows[s].status = "paid"
            /\ AllDone(Executed(s)) => sends[s] = (IF Rows[s].email THEN 1 ELSE 0)

\* Two deliveries raced to the update of a transaction with an email, both
\* ended, one notification.
C1_Witness ==
    \E s \in Sessions :
        /\ Cardinality(Executed(s)) >= 2
        /\ AllDone(Executed(s))
        /\ Rows[s].email
        /\ sends[s] = 1

Rank(status) ==
    CASE status = "absent" -> 0
      [] status = "initiated" -> 1
      [] status = "registered" -> 2
      [] status = "paid" -> 3

\* C2: no step of registration or of a webhook handler moves the status of a
\* transaction backwards along initiated -> registered -> paid.
C2_StatusNeverRegresses ==
    [][\A s \in Sessions : Rank(Rows'[s].status) >= Rank(Rows[s].status)]_vars

\* C3: once paid_at of a transaction is set, no step changes it.
C3_PaidAtWrittenOnce ==
    [][\A s \in Sessions : Rows[s].paid_at # 0 => Rows'[s].paid_at = Rows[s].paid_at]_vars

\* C4: the step in which a delivery reads a transaction that is already paid
\* ends the invocation with 200; the invocation has made no verify call and
\* no update, and the step changes no row, sends nothing and logs nothing.
C4_PaidIsNoOp ==
    [][\A p \in Deliveries :
        (wh'[p] # wh[p] /\ wh'[p].seen = "paid") =>
            /\ wh'[p].pc = "done" /\ wh'[p].resp = 200
            /\ wh'[p].verify = "none" /\ ~wh'[p].executed /\ ~wh'[p].changed
            /\ UNCHANGED <<p24_transactions, sends, p24_events>>]_vars

\* A redelivery that found the transaction paid and was acknowledged.
C4_Witness ==
    \E p \in Deliveries, q \in Deliveries :
        /\ p # q /\ wh[p].sid = wh[q].sid
        /\ wh[q].changed /\ wh[q].pc = "done"
        /\ wh[p].seen = "paid" /\ wh[p].pc = "done" /\ wh[p].resp = 200

\* C5: a transaction is paid only through the update of an invocation for
\* its session whose verify call succeeded, and an invocation whose update
\* changed a row is one whose verify call succeeded, never one whose verify
\* call failed.
C5_PaidOnlyAfterVerify ==
    /\ \A s \in Sessions :
            Rows[s].status = "paid" =>
                \E p \in Deliveries :
                    wh[p].sid = s /\ wh[p].changed /\ wh[p].verify = "ok"
    /\ \A p \in Deliveries :
            (wh[p].executed \/ wh[p].changed \/ wh[p].pc \in {"update", "legacyUpdate"})
                => wh[p].verify = "ok"

\* One delivery failed verification and left the transaction unpaid.
C5_Witness ==
    \E p \in Deliveries, q \in Deliveries :
        /\ wh[p].verify = "fail" /\ wh[p].pc = "done"
        /\ wh[q].verify = "ok" /\ wh[q].changed /\ wh[q].sid = wh[p].sid
        /\ Rows[wh[q].sid].status = "paid"

\* C6: every POST invocation that ends has appended its webhook_status event
\* (the store accepting inserts), a step that changes a transaction is taken
\* only by an invocation whose event is already in the log, and no event ever
\* leaves the log.
C6_AuditFirst ==
    [][/\ \A p \in Deliveries :
            /\ (eventsUp /\ wh'[p].pc = "done" /\ wh'[p].method = "POST") =>
                    \E e \in p24_events' : e.by = p /\ e.event_type = "webhook_status"
            /\ (eventsUp /\ wh'[p] # wh[p] /\ p24_transactions' # p24_transactions) =>
                    \E e \in p24_events : e.by = p /\ e.event_type = "webhook_status"
       /\ p24_events \subseteq p24_events']_vars

\* C7: the step in which status.js finds the identifiers missing or no
\* transaction for the session ends the invocation with 200, with its audit
\* event in the log (the store accepting inserts), no row created or changed
\* and no verify call made.
C7_UnknownIsAcknowledged ==
    [][\A p \in Deliveries :
        (/\ wh'[p] # wh[p]
         /\ wh'[p].handler = "status"
         /\ \/ wh'[p].order # "none" /\ (wh'[p].sid = NoSession \/ wh'[p].order = "missing")
            \/ wh'[p].seen = "null") =>
            /\ wh'[p].pc = "done" /\ wh'[p].resp = 200
            /\ eventsUp => AuditEvent(p)' \in p24_events'
            /\ UNCHANGED <<p24_transactions, sends>>
            /\ wh'[p].verify = "none" /\ ~wh'[p].executed]_vars

\* Acknowledged deliveries: one without order identifier, one for a session
\* that has no transaction.
C7_Witness ==
    \E p \in Deliveries, q \in Deliveries :
        /\ wh[p].handler = "status" /\ wh[p].order = "missing" /\ wh[p].resp = 200
        /\ wh[q].handler = "status" /\ wh[q].seen = "null" /\ wh[q].resp = 200
        /\ eventsUp /\ AuditEvent(p) \in p24_events /\ AuditEvent(q) \in p24_events

\* C8: sendThankYouEmail is called only by an invocation whose own update
\* changed a row, for a transaction with an email whose
\* thankyou_email_sent_at is null; thankyou_email_sent_at is set only by the
\* marking step of an invocation that sent, and once set it never changes.
C8_NotificationOnce ==
    [][\A s \in Sessions :
        /\ sends'[s] # sends[s] =>
                /\ Rows[s].email /\ Rows[s].thankyou_email_sent_at = 0
                /\ \E p \in Deliveries :
                        wh'[p] # wh[p] /\ wh[p].sid = s /\ wh[p].changed
        /\ Rows'[s].thankyou_email_sent_at # Rows[s].thankyou_email_sent_at =>
                /\ Rows[s].thankyou_email_sent_at = 0
                /\ \E p \in Deliveries :
                        wh'[p] # wh[p] /\ wh[p].sid = s /\ wh[p].pc = "mark"]_vars

\* The email was sent and marked while another delivery raced to the update.
C8_Witness ==
    \E s \in Sessions :
        /\ Rows[s].thankyou_email_sent_at # 0
        /\ sends[s] = 1
        /\ Cardinality(Executed(s)) >= 2

\* C9: every invocation of the webhook handler that ends has responded 200,
\* or 405 when the method is not POST.
C9_AlwaysAcknowledged ==
    \A p \in Deliveries :
        wh[p].pc = "done" => wh[p].resp = (IF wh[p].method = "POST" THEN 200 ELSE 405)

\* C10: a step of status.js taken after its verify call failed changes no row
\* and sends nothing; the invocation goes to the catch block and ends with
\* 200 and an error event in the log (the store accepting inserts).
C10_VerifyFailureAbsorbed ==
    [][\A p \in Deliveries :
        (wh'[p] # wh[p] /\ wh'[p].handler = "status" /\ wh'[p].verify = "fail") =>
            /\ UNCHANGED <<p24_transactions, sends>>
            /\ ~wh'[p].executed /\ ~wh'[p].changed
            /\ \/ wh[p].pc = "verify" /\ wh'[p].pc = "catch"
               \/ /\ wh[p].pc = "catch" /\ wh'[p].pc = "done" /\ wh'[p].resp = 200
                  /\ eventsUp => ErrorEvent(p) \in p24_events']_vars

\* A delivery whose verify call failed was acknowledged and left the
\* transaction unpaid; a redelivery then completed the payment.
C10_Witness ==
    \E p \in Deliveries, q \in Deliveries :
        /\ wh[p].handler = "status" /\ wh[p].verify = "fail"
        /\ wh[p].pc = "done" /\ wh[p].resp = 200
        /\ eventsUp /\ ErrorEvent(p) \in p24_events
        /\ wh[q].handler = "status" /\ wh[q].sid = wh[p].sid
        /\ wh[q].seen = "open" /\ wh[q].changed
        /\ Rows[wh[q].sid].paid_at = Stamp(q)

C12_AmountCurrencyImmutable ==
    [][\A s \in Sessions :
        Exists(Rows[s]) =>
            /\ Exists(Rows'[s])
            /\ Rows'[s].amount_grosze = Rows[s].amount_grosze
            /\ Rows'[s].currency = Rows[s].currency]_vars

\* A transaction created in EUR was registered, paid and its email marked.
C12_Witness ==
    \E s \in Sessions :
        /\ Rows[s].status = "paid"
        /\ Rows[s].p24_token # "null"
        /\ Rows[s].currency = "EUR"
        /\ Rows[s].thankyou_email_sent_at # 0

\* C13: a registration whose amount is no number or outside the configured
\* minimum and maximum, whose privacy or terms consent is not affirmative, or
\* whose email is missing while required, is answered 400 with an error
\* message, inserts no row, and ends without calling the processor.
C13_InvalidRequestRejected ==
    [][\A c \in Sessions :
        LET req == cr[c].req
            min == NumberOf(toInt(OrDefault(cr[c].env.min, DefaultMinGrosze)))
            max == NumberOf(toInt(OrDefault(cr[c].env.max, DefaultMaxGrosze)))
            affirmative == {"true", "'true'", "1", "'1'", "'on'"}
            invalid ==
                \/ ~req.amount.finite
                \/ req.amount.whole < min
                \/ req.amount.whole > max
                \/ req.privacy \notin affirmative
                \/ req.terms \notin affirmative
                \/ cr[c].env.requireEmail # "false" /\ req.email \in {"", "blank"}
        IN  /\ cr[c].pc = "validate" /\ invalid /\ cr'[c] # cr[c] =>
                /\ cr'[c].pc = "done"
                /\ cr'[c].resp = 400
                /\ cr'[c].error # "none"
                /\ Rows' = Rows
            /\ cr[c].pc = "done" => cr'[c] = cr[c] /\ Rows'[c] = Rows[c]]_vars

\* A request without the terms consent was answered 400 and left no row.
C13_Witness ==
    \E c \in Sessions :
        /\ cr[c].pc = "done"
        /\ cr[c].resp = 400
        /\ cr[c].error = "consents"
        /\ ~Exists(Rows[c])

\* C14: every amount that an insert of registration persists is a positive
\* integer between the configured minimum and maximum, and a request whose
\* amount is below the configured minimum is answered 400 with the
\* minimum-amount error.
C14_AcceptedAmountInRange ==
    [][\A c \in Sessions :
        LET min == NumberOf(toInt(OrDefault(cr[c].env.min, DefaultMinGrosze)))
            max == NumberOf(toInt(OrDefault(cr[c].env.max, DefaultMaxGrosze)))
        IN  /\ ~Exists(Rows[c]) /\ Exists(Rows'[c]) =>
                /\ Rows'[c].amount_grosze > 0
                /\ min <= Rows'[c].amount_grosze
                /\ Rows'[c].amount_grosze <= max
            /\ /\ cr[c].pc = "validate"
               /\ cr[c].req.amount.finite
               /\ cr[c].req.amount.whole < min
               /\ cr'[c] # cr[c]
               => cr'[c].resp = 400 /\ cr'[c].error = "min"]_vars

\* C15: the register call is issued only for a session whose initiated row
\* is in the table, and a registration whose insert failed has ended without
\* the call.
C15_InsertBeforeRegister ==
    [][\A c \in Sessions :
        /\ cr[c].pc = "register" /\ cr'[c] # cr[c] => Rows[c].status = "initiated"
        /\ cr'[c].pc \in {"register", "update"} => Exists(Rows'[c])
        /\ cr'[c].error = "insert" => cr'[c].pc = "done" /\ cr'[c].resp = 500]_vars

\* The register call was issued and answered for an initiated row.
C15_Witness ==
    \E c \in Sessions :
        /\ cr[c].pc = "update"
        /\ Rows[c].status = "initiated"

\* C16: the update that follows a register response with a token either sets
\* status registered, the token, the order id and the redirect URL computed
\* from the token and answers 200, or is refused by the store and answers 500
\* with the row untouched; a register call that fails or returns no token
\* answers 500 and leaves the row initiated, without token, in the table.
C16_RegisteredOrStillInitiated ==
    [][\A c \in Sessions :
        /\ cr[c].pc = "update" /\ cr'[c] # cr[c] =>
            \/ /\ cr'[c].resp = 200
               /\ Rows'[c].status = "registered"
               /\ Rows'[c].p24_token = cr[c].reg.token
               /\ Rows'[c].p24_token # "null"
               /\ Rows'[c].p24_order_id = cr[c].reg.orderId
               /\ Rows'[c].redirect_url = <<"hostForRedirect", "trnRequest", cr[c].reg.token>>
            \/ /\ cr'[c].resp = 500
               /\ cr'[c].error = "update"
               /\ Rows'[c] = Rows[c]
        /\ cr[c].pc = "register" /\ cr'[c].pc = "done" =>
            /\ cr'[c].resp = 500
            /\ Rows'[c] = Rows[c]
        /\ cr[c].pc = "done" /\ cr[c].error = "register" =>
            /\ Rows'[c].status = "initiated"
            /\ Rows'[c].p24_token = "null"
            /\ Rows'[c].redirect_url = "null"]_vars

\* A registration was answered 200 with an order id in the register response.
C16_Witness ==
    \E c \in Sessions :
        /\ cr[c].pc = "done"
        /\ cr[c].resp = 200
        /\ Rows[c].status = "registered"
        /\ Rows[c].p24_order_id = "order"

\* C17: two distinct session identifiers never get the same public reference.
C17_PublicRefInjective ==
    (calc.op = "makePublicRef" /\ calc.done /\ calc.a # calc.b) =>
        calc.refA # calc.refB

\* C18: every step of a webhook handler leaves each record of p24_events in
\* the log as it was; the log only grows.
C18_EventsAppendOnly ==
    [][p24_events \subseteq p24_events']_vars

\* One delivery logged its webhook_status and verify events and another one
\* logged an event after them.
C18_Witness ==
    \E p, q \in Deliveries :
        /\ p # q
        /\ Event("webhook_status", wh[p].sid, p) \in p24_events
        /\ Event("verify", wh[p].sid, p) \in p24_events
        /\ wh[p].sid # NoSession
        /\ Event("webhook_status", wh[q].sid, q) \in p24_events
        /\ wh[q].sid = wh[p].sid

\* C19: a request with lang=en makes no call to the translation provider and
\* does not write the EN cache on any of its steps, and, errors answered with
\* 500 set aside, it is answered with 503 when no EN collection is stored.
C19_EnglishReadNeverTranslates ==
    [][\A r \in NewsRequests :
        (nr'[r] # nr[r] /\ nr'[r].lang = "en") =>
            /\ nr'[r].calls = 0
            /\ nr'[r].enWrites = 0
            /\ facebook_cache'.en = facebook_cache.en
            /\ (nr'[r].pc = "done" /\ ~facebook_cache.en.exists) =>
                    nr'[r].resp \in {503, 500}]_vars

ExistingRead(r) ==
    IF nr'[r].enReadErr THEN <<>> ELSE facebook_cache.en.posts

\* Whether a stored EN post has the content hash of this post.
Matched(post, existing) ==
    \E j \in 1..Len(existing) : existing[j].content_hash = postContentHash(post)

\* The titles and bodies of the posts without match, post by post: all of
\* them, or the non-empty ones only.
RECURSIVE UnmatchedFields(_, _, _, _)
UnmatchedFields(i, posts, existing, all) ==
    IF i > Len(posts) THEN <<>>
    ELSE (IF Matched(posts[i], existing) THEN <<>>
          ELSE (IF all \/ posts[i].title # <<>> THEN <<posts[i].title>> ELSE <<>>)
               \o (IF all \/ posts[i].body # <<>> THEN <<posts[i].body>> ELSE <<>>))
         \o UnmatchedFields(i + 1, posts, existing, all)

\* The step of request r that builds the EN posts and the batch of texts.
Rebuilds(r) ==
    /\ nr[r].pc = "reconcile"
    /\ nr'[r].pc \in {"translate", "enWrite"}

\* Every post with a match in the EN collection read takes the title and
\* body of a stored post with its content hash, and its own date, link and
\* image.
ReusesMatched(r) ==
    LET posts == nr[r].posts
        existing == ExistingRead(r) IN
    /\ Len(nr'[r].next) = Len(posts)
    /\ \A i \in 1..Len(posts) :
        Matched(posts[i], existing) =>
            /\ \E j \in 1..Len(existing) :
                /\ existing[j].content_hash = postContentHash(posts[i])
                /\ nr'[r].next[i].title = existing[j].title
                /\ nr'[r].next[i].body = existing[j].body
            /\ nr'[r].next[i].meta = posts[i].meta
            /\ nr'[r].next[i].content_hash = postContentHash(posts[i])

\* C21 as stated: when the source hash differs, the posts with a match in
\* the stored EN collection keep its translations, and the batch for the
\* provider is exactly the titles and bodies of the posts without match.
C21_ReuseAndTranslateRest ==
    [][\A r \in NewsRequests :
        Rebuilds(r) =>
            /\ ReusesMatched(r)
            /\ nr'[r].texts = UnmatchedFields(1, nr[r].posts, ExistingRead(r), TRUE)]_vars

\* C21: when the source hash differs, the posts with a match in the stored EN
\* collection keep its translations (date, link and image refreshed), and the
\* batch for the provider is exactly the non-empty titles and bodies of the
\* posts without match.
C21_ReuseAndTranslateNonEmpty ==
    [][\A r \in NewsRequests :
        Rebuilds(r) =>
            /\ ReusesMatched(r)
            /\ nr'[r].texts = UnmatchedFields(1, nr[r].posts, ExistingRead(r), FALSE)]_vars

\* A reconciliation of two posts kept the stored translation of the second,
\* with a date other than the stored one, and has the first to translate.
C21_Witness ==
    \E r \in NewsRequests :
        /\ nr[r].pc = "translate"
        /\ Len(nr[r].next) = 2
        /\ nr[r].next[1].title = NullText
        /\ nr[r].next[2].title = Translated(nr[r].posts[2].title)
        /\ nr[r].texts = <<nr[r].posts[1].title, nr[r].posts[1].body>>
        /\ facebook_cache.en.exists
        /\ \E j \in 1..Len(facebook_cache.en.posts) :
              /\ facebook_cache.en.posts[j].content_hash = nr[r].next[2].content_hash
              /\ facebook_cache.en.posts[j].meta # nr[r].next[2].meta

\* C22: a reconciliation calls the translation provider at most once; the
\* batch holds every non-empty title and body of the posts without match,
\* their empty fields are set to the empty text without being sent, no call
\* is made when the batch is empty, the one call fills every field left to
\* translate, and the EN collection is stored under the fingerprint of the
\* current posts.
C22_OneBatchedCall ==
    [][\A r \in NewsRequests :
        /\ nr'[r].calls <= 1
        /\ Rebuilds(r) =>
            /\ nr'[r].texts = UnmatchedFields(1, nr[r].posts, ExistingRead(r), FALSE)
            /\ \A i \in 1..Len(nr[r].posts) :
                ~Matched(nr[r].posts[i], ExistingRead(r)) =>
                    /\ nr'[r].next[i].title =
                            IF nr[r].posts[i].title = <<>> THEN <<>> ELSE NullText
                    /\ nr'[r].next[i].body =
                            IF nr[r].posts[i].body = <<>> THEN <<>> ELSE NullText
            /\ (nr'[r].pc = "translate") <=> (nr'[r].texts # <<>>)
            /\ nr'[r].calls = 0
        /\ (nr[r].pc = "translate" /\ nr'[r].pc = "enWrite") =>
            /\ nr'[r].calls = 1
            /\ \A i \in 1..Len(nr[r].next) :
                /\ nr'[r].next[i].title =
                        IF nr[r].next[i].title = NullText
                        THEN Translated(nr[r].posts[i].title) ELSE nr[r].next[i].title
                /\ nr'[r].next[i].body =
                        IF nr[r].next[i].body = NullText
                        THEN Translated(nr[r].posts[i].body) ELSE nr[r].next[i].body
        /\ (nr[r].pc = "enWrite" /\ nr'[r] # nr[r]) =>
            \/ /\ nr'[r].enWrites = 1
               /\ facebook_cache'.en.exists
               /\ facebook_cache'.en.source_hash = stablePostsFingerprint(nr[r].posts)
               /\ facebook_cache'.en.posts = nr[r].next
               /\ facebook_cache'.pl = facebook_cache.pl
            \/ /\ nr'[r].enWrites = 0
               /\ facebook_cache' = facebook_cache]_vars

\* A reconciliation made its one call and stored a collection with a post
\* whose empty title was not sent and whose body was translated.
C22_Witness ==
    \E r \in NewsRequests :
        /\ nr[r].pc = "done"
        /\ nr[r].calls = 1
        /\ nr[r].enWrites = 1
        /\ facebook_cache.en.exists
        /\ \E i \in 1..Len(facebook_cache.en.posts) :
              /\ facebook_cache.en.posts[i].title = <<>>
              /\ facebook_cache.en.posts[i].body # <<>>
              /\ facebook_cache.en.posts[i].body # NullText

\* C23: after a failure of the translation provider, a PL request with
\* prefetch_en=1 that has fetched posts whose fingerprint is not the
\* source_hash of the stored EN collection goes on to the reconciliation.
C23_StaleEnIsReattempted ==
    [][\A r \in NewsRequests :
        ( /\ nr[r].pc = "plWrite"
          /\ nr'[r] # nr[r]
          /\ nr[r].lang = "pl"
          /\ nr[r].prefetch
          /\ deepl = "failed"
          /\ \/ ~facebook_cache.en.exists
             \/ facebook_cache.en.source_hash # stablePostsFingerprint(nr[r].posts) ) =>
                nr'[r].pc = "reconcile"]_vars

\* C24: when the call to the translation provider fails, the PL request is
\* answered 200 with the payload built from the fetch, and neither cache row
\* is written by that step: the EN collection stays as it was.
C24_ProviderFailureIsAbsorbed ==
    [][\A r \in NewsRequests :
        (nr[r].pc = "translate" /\ nr'[r] # nr[r] /\ deepl' = "failed") =>
            /\ nr'[r].pc = "done"
            /\ nr'[r].lang = "pl"
            /\ nr'[r].resp = 200
            /\ nr'[r].body = "payload"
            /\ nr'[r].enWrites = 0
            /\ facebook_cache' = facebook_cache]_vars

\* The provider failed on a request that was answered 200, with an EN
\* collection in the store that is older than the PL one.
C24_Witness ==
    \E r \in NewsRequests :
        /\ deepl = "failed"
        /\ nr[r].pc = "done"
        /\ nr[r].calls = 1
        /\ nr[r].enWrites = 0
        /\ nr[r].resp = 200
        /\ facebook_cache.en.exists
        /\ facebook_cache.pl.exists
        /\ facebook_cache.en.source_hash # facebook_cache.pl.source_hash

\* C25: the content hashes of two posts are equal exactly when their titles
\* are equal after whitespace normalization and their bodies are; posts that
\* differ in date, link or image only have the same content hash.
C25_ContentHashOfTitleAndBody ==
    (calc.op = "stablePostsFingerprint" /\ calc.done) =>
        \A i \in 1..Len(calc.a), j \in 1..Len(calc.b) :
            /\ (calc.hashesA[i] = calc.hashesB[j]) <=>
                    /\ normalizeText(calc.a[i].title) = normalizeText(calc.b[j].title)
                    /\ normalizeText(calc.a[i].body) = normalizeText(calc.b[j].body)
            /\ ( /\ calc.a[i].title = calc.b[j].title
                  /\ calc.a[i].body = calc.b[j].body ) =>
                    calc.hashesA[i] = calc.hashesB[j]

\* The hashes of two posts that differ in date only were computed, and
\* those of two posts that differ in whitespace only.
C25_Witness ==
    /\ calc.op = "stablePostsFingerprint"
    /\ calc.done
    /\ Len(calc.a) = 2
    /\ Len(calc.b) = 2
    /\ calc.a[1].meta # calc.b[1].meta
    /\ calc.a[1].body = calc.b[1].body
    /\ calc.a[1].title = calc.b[1].title
    /\ calc.hashesA[1] = calc.hashesB[1]
    /\ calc.a[2].body # calc.b[2].body
    /\ calc.a[2].title # calc.b[2].title
    /\ calc.hashesA[2] = calc.hashesB[2]

\* Whether two collections have the same number of posts and, place by
\* place, posts of equal content hash.
SameContent(a, b) ==
    /\ Len(a) = Len(b)
    /\ \A i \in 1..Len(a) : postContentHash(a[i]) = postContentHash(b[i])

\* C26: the fingerprints of two collections are equal exactly when they have
\* the same number of posts and, place by place, posts of equal content hash;
\* so collections that differ in date, link or image only have the same
\* fingerprint.
C26_FingerprintOfContent ==
    (calc.op = "stablePostsFingerprint" /\ calc.done) =>
        /\ (calc.fpA = calc.fpB) <=> SameContent(calc.a, calc.b)
        /\ ( /\ Len(calc.a) = Len(calc.b)
              /\ \A i \in 1..Len(calc.a) :
                    /\ calc.a[i].title = calc.b[i].title
                    /\ calc.a[i].body = calc.b[i].body ) =>
                calc.fpA = calc.fpB

\* The fingerprints of two collections of the same two posts in the other
\* order were computed, and differ.
C26_Witness ==
    /\ calc.op = "stablePostsFingerprint"
    /\ calc.done
    /\ Len(calc.a) = 2
    /\ Len(calc.b) = 2
    /\ calc.a[1] = calc.b[2]
    /\ calc.a[2] = calc.b[1]
    /\ postContentHash(calc.a[1]) # postContentHash(calc.a[2])
    /\ calc.fpA # calc.fpB

\* The step on which request r reads its parameters and the PL cache.
Starts(r) ==
    /\ nr[r].pc \in {"idle", "done"}
    /\ nr'[r] # nr[r]
    /\ nr'[r].resp \notin {405, 500}

\* C27: a PL request that reads a stored collection younger than
\* cache_refresh_hours is answered 200 with it on that step, without a fetch,
\* a call to the provider or a write of either cache row.
C27_FreshCacheIsPureRead ==
    [][\A r \in NewsRequests :
        /\ ( /\ Starts(r)
              /\ nr'[r].lang = "pl"
              /\ ~nr'[r].cacheError
              /\ facebook_cache.pl.exists
              /\ facebook_cache.pl.fresh ) =>
                /\ nr'[r].pc = "done"
                /\ nr'[r].resp = 200
                /\ nr'[r].body = "plCache"
                /\ nr'[r].calls = 0
                /\ nr'[r].enWrites = 0
                /\ facebook_cache' = facebook_cache
        /\ nr'[r].body = "plCache" =>
                /\ nr[r].pc \in {"idle", "done"}
                /\ nr'[r].calls = 0
                /\ nr'[r].enWrites = 0]_vars

\* A PL request was answered from the cache while the stored collection is
\* younger than cache_refresh_hours.
C27_Witness ==
    \E r \in NewsRequests :
        /\ nr[r].pc = "done"
        /\ nr[r].lang = "pl"
        /\ nr[r].resp = 200
        /\ nr[r].body = "plCache"
        /\ facebook_cache.pl.exists
        /\ facebook_cache.pl.fresh

Fetched(r) ==
    /\ nr[r].pc = "fetch"
    /\ nr'[r] # nr[r]
    /\ ~(nr'[r].pc = "done" /\ nr'[r].body \in {"fallback", "error"})

\* The write of the PL cache by request r: the row of the posts of its
\* fetch, or nothing when the store refuses the upsert.
WritesFetched(r) ==
    nr[r].pc = "plWrite" /\ nr'[r] # nr[r] =>
        \/ /\ facebook_cache'.pl = CacheRow(TRUE, stablePostsFingerprint(nr[r].posts),
                                             nr[r].posts)
           /\ facebook_cache'.en = facebook_cache.en
        \/ facebook_cache' = facebook_cache

\* C29 as stated: every request whose fetch succeeds goes on to write the PL
\* cache, and the write stores the collection built from that fetch.
C29_EveryFetchIsStored ==
    [][\A r \in NewsRequests :
        /\ Fetched(r) => nr'[r].pc = "plWrite"
        /\ WritesFetched(r)]_vars

\* C29: every request whose fetch succeeds and yields at least one post goes
\* on to write the PL cache, and the write stores the collection built from
\* that fetch unless the store refuses it; a fetch that yields no post writes
\* nothing.
C29_FetchWithPostsIsStored ==
    [][\A r \in NewsRequests :
        /\ Fetched(r) =>
            /\ facebook_cache' = facebook_cache
            /\ \/ /\ nr'[r].pc = "plWrite"
                  /\ nr'[r].posts # <<>>
                  /\ \E data \in Feeds : nr'[r].posts = BuildPosts(data)
               \/ /\ nr'[r].pc \in {"done", "enRead"}
                  /\ nr'[r].posts = <<>>
                  /\ nr'[r].body \in {"empty", "noPosts", "none"}
        /\ WritesFetched(r)]_vars

\* A request has written the posts of its fetch to the PL cache and goes on
\* to the reconciliation.
C29_Witness ==
    \E r \in NewsRequests :
        /\ nr[r].pc = "reconcile"
        /\ nr[r].posts # <<>>
        /\ facebook_cache.pl.exists
        /\ facebook_cache.pl.fresh
        /\ facebook_cache.pl.posts = nr[r].posts
        /\ facebook_cache.pl.source_hash = stablePostsFingerprint(nr[r].posts)

\* Whether cut is what is left of the trimmed text t when it is cut after its
\* first sentence end, or before its first newline when it has no sentence
\* end, and trimmed again.
IsCut(cut, t) ==
    \E k \in 0..Len(t) :
        /\ cut = Trim(SubSeq(t, 1, k))
        /\ IF \E i \in 1..Len(t) : t[i] \in {".", "!", "?"}
           THEN /\ k > 0
                /\ t[k] \in {".", "!", "?"}
                /\ \A j \in 1..(k - 1) : t[j] \notin {".", "!", "?"}
           ELSE IF \E i \in 1..Len(t) : t[i] = "\n"
           THEN /\ k < Len(t)
                /\ t[k + 1] = "\n"
                /\ \A j \in 1..k : t[j] # "\n"
           ELSE k = Len(t)

----------------------------------------------------------------------------
\* C31: every ended invocation that changed a transaction to paid has a verify
\* or error event of its own in the log.
C31_PaidHasEvent ==
    \A p \in Deliveries :
        (wh[p].pc = "done" /\ wh[p].changed) =>
            \E e \in p24_events :
                e.by = p /\ e.event_type \in {"verify", "error"}

\* C32: while the event log refuses inserts, nothing is logged, a delivery
\* with both identifiers goes from the audit insert on to read the
\* transaction, the step that would log the verify event goes on to the email
\* decision or ends with 200, and the catch block ends with 200.
C32_AuditFailureSwallowed ==
    [][\A p \in Deliveries :
        (~eventsUp /\ wh'[p] # wh[p] /\ wh'[p].handler = "status") =>
            /\ p24_events' = p24_events
            /\ (wh[p].pc = "idle" /\ wh'[p].sid # NoSession
                    /\ wh'[p].order = "present") => wh'[p].pc = "read"
            /\ wh[p].pc = "verifyEvent" =>
                    \/ wh'[p].pc = "send"
                    \/ wh'[p].pc = "done" /\ wh'[p].resp = 200
            /\ wh[p].pc = "catch" => wh'[p].pc = "done" /\ wh'[p].resp = 200]_vars

\* The log refused every insert, and a delivery verified the payment, marked
\* the transaction paid and answered 200.
C32_Witness ==
    \E p \in Deliveries :
        /\ ~eventsUp /\ p24_events = {}
        /\ wh[p].handler = "status" /\ wh[p].pc = "done" /\ wh[p].resp = 200
        /\ wh[p].verify = "ok" /\ wh[p].changed
        /\ Rows[wh[p].sid].status = "paid"

\* C36: a step that sets thankyou_email_sent_at on a transaction is taken by
\* a delivery whose sendThankYouEmail call had the email accepted by the
\* provider.
C36_SentOnlyIfAccepted ==
    [][\A s \in Sessions :
        (Rows[s].thankyou_email_sent_at = 0
            /\ p24_transactions'[s].thankyou_email_sent_at # 0) =>
                \E p \in Deliveries :
                    /\ wh[p].sid = s /\ wh[p].pc = "mark"
                    /\ wh'[p].pc = "done" /\ wh[p].mail = "ok"]_vars

\* C38: two notifications with the same session and order identifiers get the
\* same verify request and the same signature, whatever their amount and
\* currency fields say, and the request carries the amount of the stored row.
C38_VerifyFromStoredOnly ==
    (calc.op = "verifyBody" /\ calc.done
        /\ calc.a.sessionId = calc.b.sessionId
        /\ calc.a.orderId = calc.b.orderId) =>
            /\ calc.reqA = calc.reqB
            /\ calc.reqA.sign = calc.reqB.sign
            /\ calc.reqA.amount = calc.rows[calc.a.sessionId].amount_grosze
            /\ calc.reqA.sign.amount = calc.reqA.amount

\* Two notifications for one session and order with different amounts and
\* different currencies, neither equal to the stored ones, were turned into
\* requests.
C38_Witness ==
    /\ calc.op = "verifyBody" /\ calc.done
    /\ calc.a.sessionId = calc.b.sessionId /\ calc.a.orderId = calc.b.orderId
    /\ calc.a.amount # calc.b.amount /\ calc.a.currency # calc.b.currency
    /\ calc.a.amount # calc.rows[calc.a.sessionId].amount_grosze
    /\ calc.reqA.currency = "PLN" /\ calc.a.currency = "EUR"

\* C35: no request with lang=en is answered 200 with a PL collection: not the
\* stored or expired PL cache, and not the posts built from the fetch.
C35_EnglishNeverGetsPolish ==
    \A r \in NewsRequests :
        (nr[r].pc = "done" /\ nr[r].lang = "en" /\ nr[r].resp = 200) =>
            nr[r].body \notin {"fallback", "plCache", "noPosts", "payload"}

\* C34: a PL request with prefetch_en=1 that has fetched posts and ends on a
\* step in which no call and no write failed leaves the EN cache with the
\* source_hash of the posts it fetched, the one it wrote to the PL cache.
C34_PrefetchAlignsHashes ==
    [][\A r \in NewsRequests :
        ( /\ nr[r].lang = "pl" /\ nr[r].prefetch
          /\ nr[r].pc \in {"plWrite", "reconcile", "enWrite"}
          /\ nr'[r].pc = "done"
          /\ \/ /\ nr[r].pc = "plWrite"
                /\ facebook_cache'.pl = PlRow(facebook_cache.pl, nr[r].posts)
             \/ nr[r].pc = "reconcile" /\ nr'[r].hit
             \/ nr[r].pc = "enWrite" /\ nr'[r].enWrites = nr[r].enWrites + 1 ) =>
                /\ facebook_cache'.en.exists
                /\ facebook_cache'.en.source_hash = stablePostsFingerprint(nr[r].posts)]_vars

\* C37: a step of the reconciliation that writes the EN cache stores one post
\* per fetched post, in the order of the fetched posts and with their content
\* hashes, no title or body left a null placeholder, and a source_hash that is
\* the fingerprint of the content_hash values of the stored posts in order.
C37_EnCollectionConsistent ==
    [][\A r \in NewsRequests :
        (nr[r].pc = "enWrite" /\ nr'[r] # nr[r]
            /\ facebook_cache'.en # facebook_cache.en) =>
            LET en == facebook_cache'.en
                posts == nr[r].posts IN
            /\ en.exists
            /\ Len(en.posts) = Len(posts)
            /\ \A i \in 1..Len(posts) :
                /\ en.posts[i].content_hash = postContentHash(posts[i])
                /\ en.posts[i].title # NullText
                /\ en.posts[i].body # NullText
            /\ en.source_hash = [i \in 1..Len(en.posts) |-> en.posts[i].content_hash]]_vars

\* A reconciliation called the provider and stored the translations of the
\* two posts of the PL cache under its source_hash.
C37_Witness ==
    \E r \in NewsRequests :
        /\ nr[r].pc = "done" /\ nr[r].enWrites = 1 /\ nr[r].calls = 1
        /\ Len(facebook_cache.en.posts) = 2
        /\ facebook_cache.en.source_hash = facebook_cache.pl.source_hash
        /\ facebook_cache.en.posts[1].body = Translated(facebook_cache.pl.posts[1].body)
        /\ facebook_cache.en.posts[2].body = Translated(facebook_cache.pl.posts[2].body)

\* C33: the mirrors tried by translateLibre are the first ones of the list, in
\* its order; a mirror is tried only after every mirror before it failed,
\* hung until its timer fired or answered blank; the call returns the text of
\* the first mirror that answered with one and tries none after it; it throws
\* only after all mirrors were tried without a text, and throws the error of
\* the last one.
C33_FirstTranslationWins ==
    calc.op = "translateLibre" =>
        LET n == Len(calc.tried) IN
        /\ n <= Len(endpoints)
        /\ calc.tried = SubSeq(endpoints, 1, n)
        /\ \A j \in 1..n : j < n => calc.mirrors[j] # "text"
        /\ calc.pc = "returned" =>
                /\ calc.mirrors[n] = "text"
                /\ calc.out = [kind |-> "text", endpoint |-> endpoints[n]]
        /\ calc.pc = "loop" => \A j \in 1..n : calc.mirrors[j] # "text"
        /\ calc.pc = "thrown" =>
                /\ n = Len(endpoints)
                /\ \A j \in 1..n : calc.mirrors[j] # "text"
                /\ calc.out = ErrorOf(endpoints[n], calc.mirrors[n])

\* The first mirror hung, the second answered blank, the third gave the text
\* that was returned.
C33_Witness ==
    /\ calc.op = "translateLibre" /\ calc.pc = "returned"
    /\ calc.mirrors = <<"hang", "blank", "text">>
    /\ calc.tried = endpoints
    /\ calc.lastErr = ErrorOf(endpoints[2], "blank")

\* C39: a step of the callback changes the stored page_access_token only for
\* a request that carries a code and a state parameter that is not empty and
\* equals its fb_oauth_state cookie; a GET request with a code whose state
\* is missing, or differs from the cookie, is answered 400 once the
\* configuration is read, and no step of it changes the stored token.
C39_StateGuardsToken ==
    [][calc.op = "fbCallback" =>
        /\ calc'.page_access_token # calc.page_access_token =>
                /\ calc.code # "null"
                /\ calc.state \notin {"null", ""}
                /\ calc.state = calc.cookie
                /\ calc'.resp = 200
        /\ ( /\ calc'.pc # "idle"
             /\ calc'.method = "GET" /\ calc'.code # "null"
             /\ (calc'.state \in {"null", ""} \/ calc'.state # calc'.cookie)
             /\ calc'.resp # 500 ) =>
                /\ calc'.pc = "done" /\ calc'.resp = 400
                /\ calc'.page_access_token = calc.page_access_token]_vars

\* A request whose state was the cookie of the login step stored a new token,
\* and the next request, with another state, was answered 400 and left it.
C39_Witness ==
    /\ calc.op = "fbCallback"
    /\ calc.page_access_token = "t1"
    /\ calc.pc = "done" /\ calc.resp = 400
    /\ calc.code = "c" /\ calc.state = "s2" /\ calc.cookie = "s1"
    /\ calc.issued = {"s1"}

\* C40: after a call of closeModal that follows one or more calls of
\* openModal, the modal is closed (no is-open class, aria-hidden true, the
\* iframe blank) and the overflow of the body is the one found when the
\* closed modal was opened.
C40_CloseRestoresOverflow ==
    (calc.op = "modal" /\ calc.last = "closeModal" /\ calc.opens # "none") =>
        /\ ~calc.isOpen
        /\ calc.ariaHidden = "true"
        /\ calc.src = "about:blank"
        /\ calc.overflow = calc.before

====
